---------------------------- MODULE Spec2Model ----------------------------
(***************************************************************************)
(* SubFlix: the subtitle timing engine (class SubtitleEngine), the SRT      *)
(* codec, the content script with its overlay, timers and message          *)
(* handlers, the popup with chrome.storage, and the search helpers of       *)
(* Utils.                                                                  *)
(*                                                                         *)
(* Times are integers counted in ticks of a fixed length.  The engine     *)
(* only adds and compares times, and on a grid of ticks every such sum is  *)
(* exact.  JavaScript array indices are zero-based: currentIndex runs      *)
(* over -1..N-1 as in the source and At(subs, i) reads subs[i].            *)
(***************************************************************************)
EXTENDS Integers, Sequences, FiniteSets, TLC

VARIABLES
    subtitles,      \* this.subtitles
    currentIndex,   \* this.currentIndex
    offset,         \* this.offset
    enabled,        \* this.enabled
    last,           \* observation of the most recent call: name, argument, return value
    script,         \* progress of a scripted call sequence (Idle when none is running)
    page,           \* the content script's globals, its timers and the document it runs in
    popup,          \* the popup's globals
    storage,        \* chrome.storage (sync and local areas)
    channel         \* messages sent to the content script and not yet delivered

engine == <<subtitles, currentIndex, offset, enabled>>
host == <<page, popup, storage, channel>>
vars == <<subtitles, currentIndex, offset, enabled, last, script, page, popup, storage, channel>>

---------------------------------------------------------------------------
(* Bounds *)

MaxTime == 2        \* cue times are drawn from 0..MaxTime
MaxLen == 2         \* longest array of arbitrary cues handed to loadSubtitles
MaxCues == 4        \* longest array of ascending cues (file order) handed to loadSubtitles
MaxOffset == 1      \* offsets are drawn from -MaxOffset..MaxOffset
MaxLines == 7       \* longest SRT text, in lines, handed to parseSRT

Times == 0..MaxTime
Offsets == (0 - MaxOffset)..MaxOffset
\* lookup arguments: wide enough that t + offset covers -1..MaxTime+1 for every offset
ProbeTimes == (0 - MaxOffset - 1)..(MaxTime + MaxOffset + 1)
\* videoElement.currentTime is never negative
VideoTimes == 0..(MaxTime + MaxOffset + 1)

---------------------------------------------------------------------------
(* Values *)

\* the text of the i-th block of a file; it also tells two cues with the same
\* interval apart, as object identity does in the source
Texts == <<"a", "b", "c", "d", "e", "f">>

\* the JavaScript null returned by getSubtitleAtTime
Null == [start |-> -1, end |-> -1, text |-> "null"]

Cue(i, s, e) == [start |-> s, end |-> e, text |-> Texts[i]]

Intervals == {iv \in Times \X Times : iv[1] <= iv[2]}

ArraysOfLen(n) == {[i \in 1..n |-> Cue(i, f[i][1], f[i][2])] : f \in [1..n -> Intervals]}

\* cues in file order that do not run into each other (they may share an endpoint)
Ascending(subs) == \A i \in 1..(Len(subs) - 1) : subs[i].end <= subs[i + 1].start

\* the values handed to loadSubtitles: every array of at most MaxLen cues (in any
\* order, overlapping or not), every ascending array of at most MaxCues cues, and
\* things that are not arrays
CueArrays ==
    UNION {ArraysOfLen(n) : n \in 0..MaxLen}
    \cup UNION {{a \in ArraysOfLen(n) : Ascending(a)} : n \in (MaxLen + 1)..MaxCues}
Arrays == {[kind |-> "array", items |-> a] : a \in CueArrays}
NonArrays == {[kind |-> k, items |-> <<>>] : k \in {"null", "string", "object"}}
LoadInputs == Arrays \cup NonArrays

IsArray(x) == x.kind = "array"

\* the argument recorded for calls that take no array
NoArg == [kind |-> "none", items |-> <<>>]

\* subs[i] with a zero-based index
At(subs, i) == subs[i + 1]

\* variant: the end of the interval is excluded
WithinHalfOpen(time, subtitle) == time >= subtitle.start /\ time < subtitle.end

\* time >= subtitle.start && time <= subtitle.end
Within(time, subtitle) == time >= subtitle.start /\ time <= subtitle.end

---------------------------------------------------------------------------
(* _binarySearchSubtitle *)

NotFound == [found |-> FALSE, index |-> -1, subtitle |-> Null]

RECURSIVE SearchLoop(_, _, _, _)
SearchLoop(subs, time, left, right) ==
    IF left > right
    THEN NotFound
    ELSE LET mid == (left + right) \div 2
             subtitle == At(subs, mid)
         IN  IF Within(time, subtitle)
             THEN [found |-> TRUE, index |-> mid, subtitle |-> subtitle]
             ELSE IF time < subtitle.start
                  THEN SearchLoop(subs, time, left, mid - 1)
                  ELSE SearchLoop(subs, time, mid + 1, right)

BinarySearchSubtitle(subs, time) == SearchLoop(subs, time, 0, Len(subs) - 1)

---------------------------------------------------------------------------
(* getSubtitleAtTime as a function of the engine fields: the value returned, *)
(* the cursor on return, and whether _binarySearchSubtitle was called        *)

Outcome(ret, idx, searched) == [ret |-> ret, index |-> idx, searched |-> searched]

\* variant: a valid cursor is trusted without looking at the time
CacheHitUnchecked(subs, idx, time) ==
    idx >= 0 /\ idx < Len(subs)

\* variant: the bound is off by one, so the first cue is never the cached cue
CacheHitSkippingFirst(subs, idx, time) ==
    idx > 0 /\ idx < Len(subs) /\ time >= At(subs, idx).start /\ time <= At(subs, idx).end

CacheHit(subs, idx, time) ==
    idx >= 0 /\ idx < Len(subs) /\ Within(time, At(subs, idx))

\* variant: the next cue is taken without looking at the time
ForwardHitUnchecked(subs, idx, time) ==
    idx + 1 < Len(subs)

\* variant: the bound is off by one, so the last cue is never the next cue
ForwardHitShort(subs, idx, time) ==
    idx + 2 < Len(subs) /\ time >= At(subs, idx + 1).start /\ time <= At(subs, idx + 1).end

ForwardHit(subs, idx, time) ==
    idx + 1 < Len(subs) /\ Within(time, At(subs, idx + 1))

BackwardHit(subs, idx, time) ==
    idx - 1 >= 0 /\ Within(time, At(subs, idx - 1))

\* variant: a failed search drops the cursor
FallbackResettingCursor(subs, idx, time) ==
    LET result == BinarySearchSubtitle(subs, time)
    IN  IF result.found
        THEN Outcome(result.subtitle, result.index, TRUE)
        ELSE Outcome(Null, -1, TRUE)

\* variant: the index the search found is not stored
FallbackKeepingCursor(subs, idx, time) ==
    LET result == BinarySearchSubtitle(subs, time)
    IN  IF result.found
        THEN Outcome(result.subtitle, idx, TRUE)
        ELSE Outcome(Null, idx, TRUE)

Fallback(subs, idx, time) ==
    LET result == BinarySearchSubtitle(subs, time)
    IN  IF result.found
        THEN Outcome(result.subtitle, result.index, TRUE)
        ELSE Outcome(Null, idx, TRUE)

\* variant: the enable flag is not consulted
InactiveIgnoringFlag(subs, en) == Len(subs) = 0

\* !this.enabled || !this.subtitles || this.subtitles.length === 0
Inactive(subs, en) == ~en \/ Len(subs) = 0

Lookup(subs, idx, off, en, currentTime) ==
    IF Inactive(subs, en)
    THEN Outcome(Null, idx, FALSE)
    ELSE LET adjustedTime == currentTime + off
         IN  IF CacheHit(subs, idx, adjustedTime)
             THEN Outcome(At(subs, idx), idx, FALSE)
             ELSE IF ForwardHit(subs, idx, adjustedTime)
             THEN Outcome(At(subs, idx + 1), idx + 1, FALSE)
             ELSE IF BackwardHit(subs, idx, adjustedTime)
             THEN Outcome(At(subs, idx - 1), idx - 1, FALSE)
             ELSE Fallback(subs, idx, adjustedTime)

---------------------------------------------------------------------------
(* Observation of a call *)

\* op: the method called; t: its numeric argument; arg: its array argument;
\* ret: the value returned; searched: whether _binarySearchSubtitle ran;
\* from: the cursor when the call was made; threw: whether it raised
Call(op, t, arg, ret, searched, threw) ==
    [op |-> op, t |-> t, arg |-> arg, ret |-> ret, searched |-> searched,
     from |-> currentIndex, threw |-> threw]

\* no scripted call sequence is running
Idle == [step |-> 0, t |-> 0, o |-> 0, stale |-> Null]

---------------------------------------------------------------------------
(* Operations *)

\* the engine on its own: no content script, no popup, nothing stored or sent
Absent == [running |-> FALSE]

Standalone ==
    /\ page = Absent
    /\ popup = Absent
    /\ storage = Absent
    /\ channel = <<>>

\* new SubtitleEngine()
Init ==
    /\ subtitles = <<>>
    /\ currentIndex = -1
    /\ offset = 0
    /\ enabled = TRUE
    /\ last = [op |-> "new", t |-> 0, arg |-> NoArg, ret |-> Null, searched |-> FALSE,
               from |-> -1, threw |-> FALSE]
    /\ script = Idle
    /\ Standalone

\* variant: the argument is stored before it is checked
LoadSubtitlesStoringFirst(x) ==
    /\ subtitles' = x.items
    /\ currentIndex' = -1
    /\ last' = Call("loadSubtitles", 0, x, Null, FALSE, ~IsArray(x))
    /\ UNCHANGED <<offset, enabled>>

LoadSubtitles(x) ==
    IF ~IsArray(x)
    THEN /\ last' = Call("loadSubtitles", 0, x, Null, FALSE, TRUE)
         /\ UNCHANGED engine
    ELSE /\ subtitles' = x.items
         /\ currentIndex' = -1
         /\ last' = Call("loadSubtitles", 0, x, Null, FALSE, FALSE)
         /\ UNCHANGED <<offset, enabled>>

\* variant: the cursor survives the clearing
ClearSubtitlesKeepingCursor ==
    /\ subtitles' = <<>>
    /\ last' = Call("clearSubtitles", 0, NoArg, Null, FALSE, FALSE)
    /\ UNCHANGED <<currentIndex, offset, enabled>>

\* variant: clearing also drops the offset, as reset does
ClearSubtitlesResettingOffset ==
    /\ subtitles' = <<>>
    /\ currentIndex' = -1
    /\ offset' = 0
    /\ last' = Call("clearSubtitles", 0, NoArg, Null, FALSE, FALSE)
    /\ UNCHANGED enabled

ClearSubtitles ==
    /\ subtitles' = <<>>
    /\ currentIndex' = -1
    /\ last' = Call("clearSubtitles", 0, NoArg, Null, FALSE, FALSE)
    /\ UNCHANGED <<offset, enabled>>

GetSubtitleAtTime(currentTime) ==
    LET out == Lookup(subtitles, currentIndex, offset, enabled, currentTime)
    IN  /\ currentIndex' = out.index
        /\ last' = Call("getSubtitleAtTime", currentTime, NoArg, out.ret, out.searched, FALSE)
        /\ UNCHANGED <<subtitles, offset, enabled>>

\* variant: the argument is added to the offset instead of replacing it
SetOffsetAdding(o) ==
    /\ offset' = offset + o
    /\ currentIndex' = -1
    /\ last' = Call("setOffset", o, NoArg, Null, FALSE, FALSE)
    /\ UNCHANGED <<subtitles, enabled>>

\* variant: the cursor survives the offset change
SetOffsetKeepingCursor(o) ==
    /\ offset' = o
    /\ last' = Call("setOffset", o, NoArg, Null, FALSE, FALSE)
    /\ UNCHANGED <<subtitles, currentIndex, enabled>>

SetOffset(o) ==
    /\ offset' = o
    /\ currentIndex' = -1
    /\ last' = Call("setOffset", o, NoArg, Null, FALSE, FALSE)
    /\ UNCHANGED <<subtitles, enabled>>

\* variant: toggling drops the cursor
SetEnabledResettingCursor(flag) ==
    /\ enabled' = flag
    /\ currentIndex' = -1
    /\ last' = Call("setEnabled", 0, NoArg, Null, FALSE, FALSE)
    /\ UNCHANGED <<subtitles, offset>>

SetEnabled(flag) ==
    /\ enabled' = flag
    /\ last' = Call("setEnabled", 0, NoArg, Null, FALSE, FALSE)
    /\ UNCHANGED <<subtitles, currentIndex, offset>>

Reset ==
    /\ subtitles' = <<>>
    /\ currentIndex' = -1
    /\ offset' = 0
    /\ enabled' = TRUE
    /\ last' = Call("reset", 0, NoArg, Null, FALSE, FALSE)

\* variant: the cursor is not reset before the lookup
HandleSeekedKeepingCursor(currentTime, settingsEnabled) ==
    LET out == IF ~settingsEnabled \/ Len(subtitles) = 0
               THEN Outcome(Null, currentIndex, FALSE)
               ELSE Lookup(subtitles, currentIndex, offset, enabled, currentTime)
    IN  /\ currentIndex' = out.index
        /\ last' = Call("handleSeeked", currentTime, NoArg, out.ret, out.searched, FALSE)
        /\ UNCHANGED <<subtitles, offset, enabled>>

\* handleSeeked: the cursor is reset, then updateSubtitle looks the new time up
\* unless settings.enabled is false or nothing is loaded
HandleSeeked(currentTime, settingsEnabled) ==
    LET out == IF ~settingsEnabled \/ Len(subtitles) = 0
               THEN Outcome(Null, -1, FALSE)
               ELSE Lookup(subtitles, -1, offset, enabled, currentTime)
    IN  /\ currentIndex' = out.index
        /\ last' = Call("handleSeeked", currentTime, NoArg, out.ret, out.searched, FALSE)
        /\ UNCHANGED <<subtitles, offset, enabled>>

---------------------------------------------------------------------------
(* The engine driven by any caller *)

Next ==
    \/ \E x \in LoadInputs : LoadSubtitles(x) /\ UNCHANGED <<script, host>>
    \/ ClearSubtitles /\ UNCHANGED <<script, host>>
    \/ \E t \in ProbeTimes : GetSubtitleAtTime(t) /\ UNCHANGED <<script, host>>
    \/ \E o \in Offsets : SetOffset(o) /\ UNCHANGED <<script, host>>
    \/ \E f \in BOOLEAN : SetEnabled(f) /\ UNCHANGED <<script, host>>
    \/ Reset /\ UNCHANGED <<script, host>>
    \/ \E t \in VideoTimes, se \in BOOLEAN : HandleSeeked(t, se) /\ UNCHANGED <<script, host>>

Spec == Init /\ [][Next]_vars

---------------------------------------------------------------------------
(* An offset change between two lookups of the same time: the engine is     *)
(* brought into any state, then lookup(t) returns a cue, setOffset(o2) is   *)
(* called and lookup(t) is called again.  script.step counts the three      *)
(* calls; script.t, script.stale and script.o keep t, the cue the first     *)
(* lookup returned and o2.                                                  *)

Prepare ==
    /\ script.step = 0
    /\ \/ \E x \in LoadInputs : LoadSubtitles(x)
       \/ \E t \in ProbeTimes : GetSubtitleAtTime(t)
       \/ \E o \in Offsets : SetOffset(o)
       \/ \E f \in BOOLEAN : SetEnabled(f)
    /\ UNCHANGED <<script, host>>

FirstLookup(t) ==
    /\ script.step = 0
    /\ Lookup(subtitles, currentIndex, offset, enabled, t).ret # Null
    /\ GetSubtitleAtTime(t)
    /\ UNCHANGED host
    /\ script' = [step |-> 1, t |-> t, o |-> offset,
                  stale |-> Lookup(subtitles, currentIndex, offset, enabled, t).ret]

ChangeOffset(o2) ==
    /\ script.step = 1
    /\ SetOffset(o2)
    /\ UNCHANGED host
    /\ script' = [script EXCEPT !.step = 2, !.o = o2]

SecondLookup ==
    /\ script.step = 2
    /\ GetSubtitleAtTime(script.t)
    /\ UNCHANGED host
    /\ script' = [script EXCEPT !.step = 3]

StartOver ==
    /\ script.step = 3
    /\ Reset
    /\ UNCHANGED host
    /\ script' = Idle

NextInvalidate ==
    \/ Prepare
    \/ \E t \in ProbeTimes : FirstLookup(t)
    \/ \E o2 \in Offsets : ChangeOffset(o2)
    \/ SecondLookup
    \/ StartOver

SpecInvalidate == Init /\ [][NextInvalidate]_vars

---------------------------------------------------------------------------
(* Disabling and re-enabling: the engine is brought into any state, then    *)
(* setEnabled(false), setEnabled(true) and a lookup follow.  script.step    *)
(* counts the three calls and script.before keeps the four fields as they   *)
(* were before the pair.                                                    *)

Snapshot ==
    [subtitles |-> subtitles, currentIndex |-> currentIndex,
     offset |-> offset, enabled |-> enabled]

ToggleOff ==
    /\ script.step = 0
    /\ SetEnabled(FALSE)
    /\ UNCHANGED host
    /\ script' = [step |-> 1, before |-> Snapshot]

ToggleOn ==
    /\ script.step = 1
    /\ SetEnabled(TRUE)
    /\ UNCHANGED host
    /\ script' = [script EXCEPT !.step = 2]

LookupAfterToggle(t) ==
    /\ script.step = 2
    /\ GetSubtitleAtTime(t)
    /\ UNCHANGED host
    /\ script' = [script EXCEPT !.step = 3]

NextToggle ==
    \/ Prepare
    \/ ToggleOff
    \/ ToggleOn
    \/ \E t \in ProbeTimes : LookupAfterToggle(t)
    \/ StartOver

SpecToggle == Init /\ [][NextToggle]_vars

---------------------------------------------------------------------------
(* The loop of _binarySearchSubtitle, one iteration per step: the engine is  *)
(* brought into any state, then a lookup that reaches the binary search is   *)
(* followed through the loop.  script.step is 1 while the loop runs and 2    *)
(* when the lookup has returned; script.left and script.right are the loop's *)
(* variables, script.time the adjusted time, script.t the lookup's argument  *)
(* and script.iterations the number of iterations begun.                     *)

EnterSearch(currentTime) ==
    LET adjustedTime == currentTime + offset
    IN  /\ script.step = 0
        /\ ~Inactive(subtitles, enabled)
        /\ ~CacheHit(subtitles, currentIndex, adjustedTime)
        /\ ~ForwardHit(subtitles, currentIndex, adjustedTime)
        /\ ~BackwardHit(subtitles, currentIndex, adjustedTime)
        /\ UNCHANGED host
        /\ script' = [step |-> 1, t |-> currentTime, time |-> adjustedTime,
                      left |-> 0, right |-> Len(subtitles) - 1, iterations |-> 0]
        /\ UNCHANGED <<subtitles, currentIndex, offset, enabled, last>>

\* variant: the upper end is moved to mid, not below it
IterateKeepingMid ==
    /\ script.step = 1
    /\ script.left <= script.right
    /\ script.iterations <= MaxCues
    /\ LET mid      == (script.left + script.right) \div 2
           subtitle == At(subtitles, mid)
       IN  IF script.time >= subtitle.start /\ script.time <= subtitle.end
           THEN /\ currentIndex' = mid
                /\ last' = Call("getSubtitleAtTime", script.t, NoArg, subtitle, TRUE, FALSE)
                /\ script' = [script EXCEPT !.step = 2, !.iterations = @ + 1]
           ELSE /\ script' = IF script.time < subtitle.start
                             THEN [script EXCEPT !.right = mid, !.iterations = @ + 1]
                             ELSE [script EXCEPT !.left = mid + 1, !.iterations = @ + 1]
                /\ UNCHANGED <<currentIndex, last>>
    /\ UNCHANGED <<subtitles, offset, enabled, host>>

\* one pass through the body of the while loop; the count of iterations is an
\* observation and is capped so that it stays finite
Iterate ==
    /\ script.step = 1
    /\ script.left <= script.right
    /\ script.iterations <= MaxCues
    /\ LET mid      == (script.left + script.right) \div 2
           subtitle == At(subtitles, mid)
       IN  IF Within(script.time, subtitle)
           THEN /\ currentIndex' = mid
                /\ last' = Call("getSubtitleAtTime", script.t, NoArg, subtitle, TRUE, FALSE)
                /\ script' = [script EXCEPT !.step = 2, !.iterations = @ + 1]
           ELSE /\ script' = IF script.time < subtitle.start
                             THEN [script EXCEPT !.right = mid - 1, !.iterations = @ + 1]
                             ELSE [script EXCEPT !.left = mid + 1, !.iterations = @ + 1]
                /\ UNCHANGED <<currentIndex, last>>
    /\ UNCHANGED <<subtitles, offset, enabled, host>>

\* the loop condition fails: the search and the lookup return null
LeaveSearch ==
    /\ script.step = 1
    /\ script.left > script.right
    /\ last' = Call("getSubtitleAtTime", script.t, NoArg, Null, TRUE, FALSE)
    /\ UNCHANGED host
    /\ script' = [script EXCEPT !.step = 2]
    /\ UNCHANGED <<subtitles, currentIndex, offset, enabled>>

\* the caller goes on
AfterSearch ==
    /\ script.step = 2
    /\ UNCHANGED host
    /\ script' = Idle
    /\ UNCHANGED <<subtitles, currentIndex, offset, enabled, last>>

NextSearch ==
    \/ Prepare
    \/ \E t \in ProbeTimes : EnterSearch(t)
    \/ Iterate
    \/ LeaveSearch
    \/ AfterSearch

\* the loop is straight-line code: once entered it keeps running
SpecSearch ==
    /\ Init /\ [][NextSearch]_vars
    /\ WF_vars(Iterate) /\ WF_vars(LeaveSearch)

---------------------------------------------------------------------------
(* Playback of the three-cue file {0-2 s "a", 3-5 s "b", 6-8 s "c"}, one     *)
(* tick being half a second.  After loading it on a fresh engine the host   *)
(* polls at 0.5, 1.5, 3.5, 4.5 and 6.5 s; script.step is 1 after the load   *)
(* and k + 1 after the k-th of these polls.  Any other poll, a seek or an   *)
(* offset change ends the scripted run.                                     *)

PlaybackFile ==
    [kind |-> "array",
     items |-> <<[start |-> 0, end |-> 4, text |-> "a"],
                 [start |-> 6, end |-> 10, text |-> "b"],
                 [start |-> 12, end |-> 16, text |-> "c"]>>]

PlaybackPolls == <<1, 3, 7, 9, 13>>

\* any playback time up to one tick past the last cue
PlaybackTimes == 0..(PlaybackFile.items[3].end + 1)

LoadPlaybackFile ==
    /\ offset = 0 /\ enabled
    /\ LoadSubtitles(PlaybackFile)
    /\ UNCHANGED host
    /\ script' = [Idle EXCEPT !.step = 1]

ScriptedPoll ==
    /\ script.step >= 1 /\ script.step <= Len(PlaybackPolls)
    /\ GetSubtitleAtTime(PlaybackPolls[script.step])
    /\ UNCHANGED host
    /\ script' = [script EXCEPT !.step = script.step + 1]

FreePoll(t) ==
    /\ Len(subtitles) > 0
    /\ GetSubtitleAtTime(t)
    /\ UNCHANGED host
    /\ script' = Idle

Seek(t) ==
    /\ Len(subtitles) > 0
    /\ HandleSeeked(t, TRUE)
    /\ UNCHANGED host
    /\ script' = Idle

Resync(o) ==
    /\ Len(subtitles) > 0
    /\ SetOffset(o)
    /\ UNCHANGED host
    /\ script' = Idle

NextPlayback ==
    \/ LoadPlaybackFile
    \/ \E o \in Offsets : Resync(o)
    \/ ScriptedPoll
    \/ \E t \in PlaybackTimes : FreePoll(t)
    \/ \E t \in PlaybackTimes : Seek(t)

SpecPlayback == Init /\ [][NextPlayback]_vars

---------------------------------------------------------------------------
(* SRT text.  A text is a sequence of lines (the pieces between line breaks). *)
(* A line is blank (nothing but whitespace), a timestamp line, or any other   *)
(* line; lead and trail tell whether whitespace precedes and follows what is  *)
(* written on it.  A timestamp is written as four fields of decimal digits.   *)

Stamp(h, m, s, ms) == [h |-> h, m |-> m, s |-> s, ms |-> ms]

NoStamp == Stamp(<<>>, <<>>, <<>>, <<>>)

Blank ==
    [kind |-> "blank", word |-> "", start |-> NoStamp, end |-> NoStamp,
     lead |-> FALSE, trail |-> FALSE]

TextLine(word, lead, trail) ==
    [kind |-> "text", word |-> word, start |-> NoStamp, end |-> NoStamp,
     lead |-> lead, trail |-> trail]

\* `${a} --> ${b}`
TimeLine(a, b) ==
    [kind |-> "time", word |-> "", start |-> a, end |-> b,
     lead |-> FALSE, trail |-> FALSE]

RECURSIVE Decimal(_)
\* String(n) for n >= 0, as digits
Decimal(n) == IF n < 10 THEN <<n>> ELSE Decimal(n \div 10) \o <<n % 10>>

RECURSIVE PadStart(_, _)
\* padStart(width, '0')
PadStart(digits, width) ==
    IF Len(digits) >= width THEN digits ELSE PadStart(<<0>> \o digits, width)

\* times, in milliseconds, that are written out by the model beyond the first
\* few milliseconds 0..39
FormatTimes ==
    {0, 250, 1000, 1001, 4000, 5500, 8250, 8251, 59999, 3599999, 3600000,
     359999999, 360000000}

\* those of the times above for which Math.floor((seconds % 1) * 1000), computed
\* in IEEE 754 double precision on seconds = millis / 1000, is one less than
\* millis % 1000: seconds % 1 is then a double just below the decimal fraction
\* (1.001 % 1 is 0.000999999999999889, 8.251 % 1 is 0.25099999999999945,
\* 3599.999 % 1 is 0.9989999999997963); for 0..39 and the other times above
\* the product is at or above the whole number
FloorFallsShort == {1001, 8251, 3599999}

\* Utils.formatTimestamp of millis / 1000 seconds
UtilsFormatTimestamp(millis) ==
    LET hours   == millis \div 3600000
        minutes == (millis % 3600000) \div 60000
        secs    == (millis % 60000) \div 1000
        ms      == IF millis \in FloorFallsShort THEN (millis % 1000) - 1 ELSE millis % 1000
    IN  Stamp(PadStart(Decimal(hours), 2), PadStart(Decimal(minutes), 2),
              PadStart(Decimal(secs), 2), PadStart(Decimal(ms), 3))

\* _formatTimestamp of millis / 1000 seconds, millis in 0..39 or in FormatTimes
FormatTimestamp(millis) ==
    LET hours   == millis \div 3600000
        minutes == (millis % 3600000) \div 60000
        secs    == (millis % 60000) \div 1000
        ms      == IF millis \in FloorFallsShort THEN (millis % 1000) - 1 ELSE millis % 1000
    IN  Stamp(PadStart(Decimal(hours), 2), PadStart(Decimal(minutes), 2),
              PadStart(Decimal(secs), 2), PadStart(Decimal(ms), 3))

RECURSIVE TrimEnd(_)
\* what trim() removes at the end of a text: blank lines, then the whitespace
\* that follows the last line
TrimEnd(lines) ==
    IF lines = <<>> THEN <<>>
    ELSE LET n == Len(lines)
         IN  IF lines[n].kind = "blank" THEN TrimEnd(SubSeq(lines, 1, n - 1))
             ELSE [lines EXCEPT ![n].trail = FALSE]

RECURSIVE TrimStart(_)
TrimStart(lines) ==
    IF lines = <<>> THEN <<>>
    ELSE IF Head(lines).kind = "blank" THEN TrimStart(Tail(lines))
         ELSE [lines EXCEPT ![1].lead = FALSE]

\* String.prototype.trim
Trim(lines) == TrimStart(TrimEnd(lines))

---------------------------------------------------------------------------
(* Read-only queries.  One tick is one millisecond where a time is written    *)
(* out.                                                                      *)

\* op: the method called; t, u: its arguments; from: the cursor when the call
\* was made; result: the value returned
Answer(op, a, b, result) ==
    [op |-> op, t |-> a, u |-> b, from |-> currentIndex, result |-> result]

\* variant: the range is not shifted by the offset
SubtitlesInRangeUnshifted(subs, off, startTime, endTime) ==
    LET InRange(sub) == sub.start <= endTime /\ sub.end >= startTime
    IN  SelectSeq(subs, InRange)

SubtitlesInRange(subs, off, startTime, endTime) ==
    LET adjustedStart == startTime + off
        adjustedEnd   == endTime + off
        InRange(sub)  == sub.start <= adjustedEnd /\ sub.end >= adjustedStart
    IN  SelectSeq(subs, InRange)

GetSubtitlesInRange(startTime, endTime) ==
    /\ last' = Answer("getSubtitlesInRange", startTime, endTime,
                      SubtitlesInRange(subtitles, offset, startTime, endTime))
    /\ UNCHANGED engine

GetOffset ==
    /\ last' = Answer("getOffset", 0, 0, offset)
    /\ UNCHANGED engine

IsEnabled ==
    /\ last' = Answer("isEnabled", 0, 0, enabled)
    /\ UNCHANGED engine

GetSubtitleCount ==
    /\ last' = Answer("getSubtitleCount", 0, 0, Len(subtitles))
    /\ UNCHANGED engine

\* variant: the index asked for becomes the cursor
GetSubtitleByIndexMovingCursor(index) ==
    /\ last' = Answer("getSubtitleByIndex", index, 0,
                      IF index >= 0 /\ index < Len(subtitles)
                      THEN At(subtitles, index) ELSE Null)
    /\ currentIndex' = IF index >= 0 /\ index < Len(subtitles) THEN index ELSE currentIndex
    /\ UNCHANGED <<subtitles, offset, enabled>>

GetSubtitleByIndex(index) ==
    /\ last' = Answer("getSubtitleByIndex", index, 0,
                      IF index >= 0 /\ index < Len(subtitles)
                      THEN At(subtitles, index) ELSE Null)
    /\ UNCHANGED engine

TotalDuration(subs) ==
    IF Len(subs) = 0 THEN 0 ELSE subs[Len(subs)].end

GetTotalDuration ==
    /\ last' = Answer("getTotalDuration", 0, 0, TotalDuration(subtitles))
    /\ UNCHANGED engine

RECURSIVE TotalLength(_)
\* reduce((sum, sub) => sum + sub.text.length, 0)
TotalLength(subs) ==
    IF subs = <<>> THEN 0 ELSE Len(Head(subs).text) + TotalLength(Tail(subs))

RECURSIVE Longest(_, _)
\* reduce((max, sub) => (sub.text.length > max.text.length ? sub : max), max)
Longest(subs, max) ==
    IF subs = <<>> THEN max
    ELSE Longest(Tail(subs),
                 IF Len(Head(subs).text) > Len(max.text) THEN Head(subs) ELSE max)

\* Math.round(num / den) for num >= 0 and den > 0
Round(num, den) == (2 * num + den) \div (2 * den)

\* the texts of the model are shorter than 50 characters, so substring(0, 50)
\* is the whole text
Stats(subs, off, en) ==
    IF Len(subs) = 0
    THEN [count |-> 0, duration |-> 0, averageLength |-> 0, longestText |-> "",
          offset |-> off]
    ELSE [count |-> Len(subs), duration |-> TotalDuration(subs),
          averageLength |-> Round(TotalLength(subs), Len(subs)),
          longestText |-> Longest(subs, subs[1]).text \o "...",
          offset |-> off, enabled |-> en]

GetStats ==
    /\ last' = Answer("getStats", 0, 0, Stats(subtitles, offset, enabled))
    /\ UNCHANGED engine

RECURSIVE ExportBlocks(_, _)
\* the forEach of exportToSRT from zero-based position index on
ExportBlocks(subs, index) ==
    IF index >= Len(subs) THEN <<Blank>>
    ELSE LET sub == At(subs, index)
         IN  <<TextLine(ToString(index + 1), FALSE, FALSE),
               TimeLine(FormatTimestamp(sub.start), FormatTimestamp(sub.end)),
               TextLine(sub.text, FALSE, FALSE),
               Blank>> \o ExportBlocks(subs, index + 1)

ExportedSRT(subs) == Trim(ExportBlocks(subs, 0))

ExportToSRT ==
    /\ last' = Answer("exportToSRT", 0, 0, ExportedSRT(subtitles))
    /\ UNCHANGED engine

\* what is not an array, and arrays of at most MaxLen cues in any order, each
\* cue one that validateSubtitles accepts (end > start)
ShortInputs ==
    {x \in LoadInputs :
        /\ Len(x.items) <= MaxLen
        /\ \A i \in 1..Len(x.items) : x.items[i].end > x.items[i].start}

RangeTimes == ProbeTimes

Indices == (0 - 1)..MaxLen

NextQueries ==
    \/ \E x \in ShortInputs : LoadSubtitles(x) /\ UNCHANGED <<script, host>>
    \/ ClearSubtitles /\ UNCHANGED <<script, host>>
    \/ \E t \in ProbeTimes : GetSubtitleAtTime(t) /\ UNCHANGED <<script, host>>
    \/ \E o \in Offsets : SetOffset(o) /\ UNCHANGED <<script, host>>
    \/ \E f \in BOOLEAN : SetEnabled(f) /\ UNCHANGED <<script, host>>
    \/ Reset /\ UNCHANGED <<script, host>>
    \/ \E t \in VideoTimes, se \in BOOLEAN : HandleSeeked(t, se) /\ UNCHANGED <<script, host>>
    \/ \E a \in RangeTimes, b \in RangeTimes : GetSubtitlesInRange(a, b) /\ UNCHANGED <<script, host>>
    \/ GetStats /\ UNCHANGED <<script, host>>
    \/ GetOffset /\ UNCHANGED <<script, host>>
    \/ IsEnabled /\ UNCHANGED <<script, host>>
    \/ GetSubtitleCount /\ UNCHANGED <<script, host>>
    \/ \E i \in Indices : GetSubtitleByIndex(i) /\ UNCHANGED <<script, host>>
    \/ GetTotalDuration /\ UNCHANGED <<script, host>>
    \/ ExportToSRT /\ UNCHANGED <<script, host>>

SpecQueries == Init /\ [][NextQueries]_vars

---------------------------------------------------------------------------
(* parseSRT and the timestamp conversion.  Parsed times are counted in whole *)
(* milliseconds: the source adds milliseconds / 1000 to a whole number of    *)
(* seconds, here the seconds are multiplied by 1000 instead.  The text of a  *)
(* parsed entry is kept as its sequence of lines.                            *)

RECURSIVE ParseInt(_)
\* parseInt of a run of decimal digits
ParseInt(digits) ==
    IF digits = <<>> THEN 0
    ELSE 10 * ParseInt(SubSeq(digits, 1, Len(digits) - 1)) + digits[Len(digits)]

\* variant: hours are weighted like minutes
ParseTimestampHoursAsMinutes(hours, minutes, seconds, milliseconds) ==
    (ParseInt(hours) * 60 + ParseInt(minutes) * 60 + ParseInt(seconds)) * 1000
        + ParseInt(milliseconds)

\* Utils.parseTimestamp
UtilsParseTimestamp(hours, minutes, seconds, milliseconds) ==
    (ParseInt(hours) * 3600 + ParseInt(minutes) * 60 + ParseInt(seconds)) * 1000
        + ParseInt(milliseconds)

\* _parseTimestamp
ParseTimestamp(hours, minutes, seconds, milliseconds) ==
    (ParseInt(hours) * 3600 + ParseInt(minutes) * 60 + ParseInt(seconds)) * 1000
        + ParseInt(milliseconds)

\* whether /(\d{2}):(\d{2}):(\d{2}),(\d{3})\s*-->\s*(\d{2}):(\d{2}):(\d{2}),(\d{3})/
\* finds a match in the line: the pattern is not anchored, so digits may
\* precede the first hours field and follow the last milliseconds field
Matches(line) ==
    /\ line.kind = "time"
    /\ Len(line.start.h) >= 2 /\ Len(line.start.m) = 2
    /\ Len(line.start.s) = 2 /\ Len(line.start.ms) = 3
    /\ Len(line.end.h) = 2 /\ Len(line.end.m) = 2
    /\ Len(line.end.s) = 2 /\ Len(line.end.ms) >= 3

\* match[1..4]
StartGroups(line) ==
    LET h == line.start.h
    IN  Stamp(SubSeq(h, Len(h) - 1, Len(h)), line.start.m, line.start.s, line.start.ms)

\* match[5..8]
EndGroups(line) ==
    Stamp(line.end.h, line.end.m, line.end.s, SubSeq(line.end.ms, 1, 3))

Entry(start, end, text) == [start |-> start, end |-> end, text |-> text]

RECURSIVE SkipBlank(_)
SkipBlank(lines) ==
    IF lines # <<>> /\ Head(lines).kind = "blank" THEN SkipBlank(Tail(lines)) ELSE lines

RECURSIVE Split(_, _)
\* split(/\n\s*\n/): a run of blank lines between two line breaks separates
\* two blocks; block is the part collected since the last separator
Split(lines, block) ==
    IF lines = <<>> THEN <<block>>
    ELSE IF Head(lines).kind = "blank"
         THEN <<block>> \o Split(SkipBlank(lines), <<>>)
         ELSE Split(Tail(lines), Append(block, Head(lines)))

\* variant: only the first text line is taken
ParseBlockFirstTextLine(block) ==
    LET lines == Trim(block)
    IN  IF Len(lines) < 3 THEN <<>>
        ELSE IF ~Matches(lines[2]) THEN <<>>
        ELSE LET g1    == StartGroups(lines[2])
                 g2    == EndGroups(lines[2])
                 start == ParseTimestamp(g1.h, g1.m, g1.s, g1.ms)
                 end   == ParseTimestamp(g2.h, g2.m, g2.s, g2.ms)
                 text  == Trim(<<lines[3]>>)
             IN  IF text # <<>> THEN <<Entry(start, end, text)>> ELSE <<>>

\* the body of the loop of parseSRT: the entries one block adds
ParseBlock(block) ==
    LET lines == Trim(block)
    IN  IF Len(lines) < 3 THEN <<>>
        ELSE IF ~Matches(lines[2]) THEN <<>>
        ELSE LET g1    == StartGroups(lines[2])
                 g2    == EndGroups(lines[2])
                 start == ParseTimestamp(g1.h, g1.m, g1.s, g1.ms)
                 end   == ParseTimestamp(g2.h, g2.m, g2.s, g2.ms)
                 text  == Trim(SubSeq(lines, 3, Len(lines)))
             IN  IF text # <<>> THEN <<Entry(start, end, text)>> ELSE <<>>

RECURSIVE ParseBlocksStoppingAtBad(_)
\* variant: the loop ends at the first block that adds nothing
ParseBlocksStoppingAtBad(blocks) ==
    IF blocks = <<>> THEN <<>>
    ELSE IF ParseBlock(Head(blocks)) = <<>> THEN <<>>
    ELSE ParseBlock(Head(blocks)) \o ParseBlocksStoppingAtBad(Tail(blocks))

RECURSIVE ParseBlocks(_)
\* for (const block of blocks)
ParseBlocks(blocks) ==
    IF blocks = <<>> THEN <<>>
    ELSE ParseBlock(Head(blocks)) \o ParseBlocks(Tail(blocks))

ParseSRT(content) == ParseBlocks(Split(Trim(content), <<>>))

\* the timestamp of n milliseconds, n below one minute
AtMillis(n) ==
    Stamp(PadStart(Decimal(0), 2), PadStart(Decimal(0), 2),
          PadStart(Decimal(n \div 1000), 2), PadStart(Decimal(n % 1000), 3))

\* lines a text is made of: a blank line, "1", a timestamp line, a timestamp
\* line that ends before it starts, and a word with whitespace on both sides
Alphabet ==
    {Blank,
     TextLine("1", FALSE, FALSE),
     TimeLine(AtMillis(1000), AtMillis(4000)),
     TimeLine(AtMillis(4000), AtMillis(1000)),
     TextLine("World", TRUE, TRUE)}

\* 1 / 00:00:01,000 --> 00:00:04,000 / Hello //
\* 2 / 00:00:05,500 --> 00:00:08,250 / World / Line2
TwoBlockFile ==
    <<TextLine("1", FALSE, FALSE),
      TimeLine(AtMillis(1000), AtMillis(4000)),
      TextLine("Hello", FALSE, FALSE),
      Blank,
      TextLine("2", FALSE, FALSE),
      TimeLine(AtMillis(5500), AtMillis(8250)),
      TextLine("World", FALSE, FALSE),
      TextLine("Line2", FALSE, FALSE)>>

\* the two-block example with a block of ordinal and timestamp only between
\* its blocks
ThreeBlockFile ==
    SubSeq(TwoBlockFile, 1, 4)
        \o <<TextLine("3", FALSE, FALSE), TimeLine(AtMillis(4500), AtMillis(5000)), Blank>>
        \o SubSeq(TwoBlockFile, 5, 8)

\* texts of n lines
Contents(n) == [1..n -> Alphabet]

\* digits the fields of a timestamp are written with
FieldDigits == {0, 6, 9}

Fields(width) == [1..width -> FieldDigits]

Stamps == {Stamp(h, m, s, ms) : h \in Fields(2), m \in Fields(2), s \in Fields(2),
                                ms \in Fields(3)}

\* validateSubtitles applied to an array of parsed entries, whose start and
\* end are numbers and whose text is a string
ValidateSubtitles(subs) ==
    IF Len(subs) = 0 THEN FALSE
    ELSE \A i \in 1..Len(subs) : ~(subs[i].start < 0 \/ subs[i].end <= subs[i].start)

\* arrays of at most MaxLen cues in file order, none running into the next,
\* with times in whole milliseconds and a text of one line
EntryArrays ==
    {x \in UNION {{[kind |-> "array",
                    items |-> [i \in 1..n |-> Cue(i, f[i][1], f[i][2])]] :
                       f \in [1..n -> {iv \in FormatTimes \X FormatTimes : iv[1] < iv[2]}]} :
                  n \in 1..MaxLen} :
        Ascending(x.items)}

\* a fresh engine and a text, a timestamp, a time or an array of entries to
\* hand to it
InitCodec ==
    /\ subtitles = <<>>
    /\ currentIndex = -1
    /\ offset = 0
    /\ enabled = TRUE
    /\ script = Idle
    /\ Standalone
    /\ \/ \E n \in 0..MaxLines : \E c \in Contents(n) :
              last = [op |-> "text", content |-> c]
       \/ \E c \in {TwoBlockFile, ThreeBlockFile} : last = [op |-> "text", content |-> c]
       \/ \E g \in Stamps : last = [op |-> "fields", stamp |-> g]
       \/ \E t \in FormatTimes : last = [op |-> "time", millis |-> t]
       \/ \E x \in EntryArrays : last = [op |-> "entries", arg |-> x]

CallParseSRT ==
    /\ last.op = "text"
    /\ last' = [op |-> "parseSRT", content |-> last.content,
                result |-> ParseSRT(last.content), threw |-> FALSE]
    /\ UNCHANGED <<subtitles, currentIndex, offset, enabled, script, host>>

CallParseTimestamp ==
    /\ last.op = "fields"
    /\ LET g == last.stamp
       IN  last' = [op |-> "_parseTimestamp", stamp |-> g,
                    result |-> ParseTimestamp(g.h, g.m, g.s, g.ms)]
    /\ UNCHANGED <<subtitles, currentIndex, offset, enabled, script, host>>

CallUtilsParseTimestamp ==
    /\ last.op = "fields"
    /\ LET g == last.stamp
       IN  last' = [op |-> "Utils.parseTimestamp", stamp |-> g,
                    result |-> UtilsParseTimestamp(g.h, g.m, g.s, g.ms)]
    /\ UNCHANGED <<subtitles, currentIndex, offset, enabled, script, host>>

CallFormatTimestamp ==
    /\ last.op = "time"
    /\ last' = [op |-> "_formatTimestamp", millis |-> last.millis,
                result |-> FormatTimestamp(last.millis)]
    /\ UNCHANGED <<subtitles, currentIndex, offset, enabled, script, host>>

CallUtilsFormatTimestamp ==
    /\ last.op = "time"
    /\ last' = [op |-> "Utils.formatTimestamp", millis |-> last.millis,
                result |-> UtilsFormatTimestamp(last.millis)]
    /\ UNCHANGED <<subtitles, currentIndex, offset, enabled, script, host>>

\* loadSubtitles(entries)
LoadEntries ==
    /\ last.op = "entries"
    /\ LoadSubtitles(last.arg)
    /\ UNCHANGED <<script, host>>

\* exportToSRT() on the engine just loaded
ExportLoaded ==
    /\ last.op = "loadSubtitles"
    /\ ExportToSRT
    /\ UNCHANGED <<script, host>>

\* parseSRT(text) with the text just exported
ParseExported ==
    /\ last.op = "exportToSRT"
    /\ last' = [op |-> "parseSRT", content |-> last.result,
                result |-> ParseSRT(last.result), threw |-> FALSE]
    /\ UNCHANGED <<subtitles, currentIndex, offset, enabled, script, host>>

NextCodec ==
    \/ CallParseSRT
    \/ CallParseTimestamp
    \/ CallUtilsParseTimestamp
    \/ CallFormatTimestamp
    \/ CallUtilsFormatTimestamp
    \/ LoadEntries
    \/ ExportLoaded
    \/ ParseExported

SpecCodec == InitCodec /\ [][NextCodec]_vars

---------------------------------------------------------------------------
(* Utils.findSubtitleAtTime and Utils.findSubtitleIndexAtTime, the helpers  *)
(* that look a time up without an engine, next to an enabled engine that    *)
(* holds the same array and offset                                           *)

RECURSIVE UtilsSearchLoop(_, _, _, _)
\* the while loop of Utils.findSubtitleAtTime
UtilsSearchLoop(subs, adjustedTime, left, right) ==
    IF left > right
    THEN Null
    ELSE LET mid == (left + right) \div 2
             subtitle == At(subs, mid)
         IN  IF adjustedTime >= subtitle.start /\ adjustedTime <= subtitle.end
             THEN subtitle
             ELSE IF adjustedTime < subtitle.start
                  THEN UtilsSearchLoop(subs, adjustedTime, left, mid - 1)
                  ELSE UtilsSearchLoop(subs, adjustedTime, mid + 1, right)

\* variant: the offset is not added to the time
FindSubtitleAtTimeIgnoringOffset(subs, currentTime, off) ==
    IF Len(subs) = 0
    THEN Null
    ELSE UtilsSearchLoop(subs, currentTime, 0, Len(subs) - 1)

\* Utils.findSubtitleAtTime(subtitles, currentTime, offset)
FindSubtitleAtTime(subs, currentTime, off) ==
    IF Len(subs) = 0
    THEN Null
    ELSE UtilsSearchLoop(subs, currentTime + off, 0, Len(subs) - 1)

RECURSIVE ScanFrom(_, _, _, _)
\* the first index in i..endIndex-1 whose cue contains the time, or -1: the
\* for loop of Utils.findSubtitleIndexAtTime, and Array.prototype.findIndex
\* with i = 0 and endIndex = length
ScanFrom(subs, adjustedTime, i, endIndex) ==
    IF i >= endIndex
    THEN -1
    ELSE IF adjustedTime >= At(subs, i).start /\ adjustedTime <= At(subs, i).end
         THEN i
         ELSE ScanFrom(subs, adjustedTime, i + 1, endIndex)

Max(a, b) == IF a >= b THEN a ELSE b
Min(a, b) == IF a <= b THEN a ELSE b

\* Utils.findSubtitleIndexAtTime(subtitles, currentTime, offset, lastIndex)
FindSubtitleIndexAtTime(subs, currentTime, off, lastIndex) ==
    IF Len(subs) = 0
    THEN -1
    ELSE LET adjustedTime == currentTime + off
             startIndex == Max(0, lastIndex - 5)
             endIndex == Min(Len(subs), lastIndex + 10)
             near == ScanFrom(subs, adjustedTime, startIndex, endIndex)
         IN  IF near # -1
             THEN near
             ELSE ScanFrom(subs, adjustedTime, 0, Len(subs))

\* the values of lastIndex: the default, indices of the array, and values
\* whose window [lastIndex - 5, lastIndex + 10) leaves out the start of the
\* array, all of it, or lies before it
LastIndexes == {-11, 0, MaxCues - 1, 6, MaxCues + 5}

\* Utils.findSubtitleAtTime is called with the engine's array and offset
UtilsFind(t) ==
    /\ last' = [op |-> "findSubtitleAtTime", t |-> t,
                ret |-> FindSubtitleAtTime(subtitles, t, offset)]
    /\ UNCHANGED <<subtitles, currentIndex, offset, enabled, script, host>>

\* Utils.findSubtitleIndexAtTime is called with the engine's array and offset
UtilsFindIndex(t, lastIndex) ==
    /\ last' = [op |-> "findSubtitleIndexAtTime", t |-> t, lastIndex |-> lastIndex,
                index |-> FindSubtitleIndexAtTime(subtitles, t, offset, lastIndex)]
    /\ UNCHANGED <<subtitles, currentIndex, offset, enabled, script, host>>

\* the arrays in file order: sorted, consecutive cues sharing at most an endpoint
SortedInputs == {x \in Arrays : Ascending(x.items)}

NextHelpers ==
    \/ \E x \in SortedInputs : LoadSubtitles(x) /\ UNCHANGED <<script, host>>
    \/ \E t \in ProbeTimes : GetSubtitleAtTime(t) /\ UNCHANGED <<script, host>>
    \/ \E o \in Offsets : SetOffset(o) /\ UNCHANGED <<script, host>>
    \/ \E t \in ProbeTimes : UtilsFind(t)
    \/ \E t \in ProbeTimes, lastIndex \in LastIndexes : UtilsFindIndex(t, lastIndex)

SpecHelpers == Init /\ [][NextHelpers]_vars

---------------------------------------------------------------------------
(* The content script.  Its handlers run to completion one at a time; an    *)
(* async function gives way at each await whose promise is still pending.   *)
(* A handler is written as a function from the state it starts in to the     *)
(* state it leaves, so that one handler can call another.  Offsets and video *)
(* times are counted in ticks of half a second, the step of Ctrl+Arrow, on   *)
(* which Math.round(x * 10) / 10 changes nothing.                            *)

MaxVideos == 2      \* video elements that come and go in the document

Videos == 1..MaxVideos
NoVideo == 0        \* videoElement = null
NoTimer == 0        \* updateInterval = null, videoCheckInterval = null

\* the two fields of settings that the engine is told about
Settings(e, o) == [loaded |-> TRUE, enabled |-> e, subtitleOffset |-> o]
\* let settings = null
NoSettings == [loaded |-> FALSE, enabled |-> FALSE, subtitleOffset |-> 0]
\* the defaultValues handed to StorageHelper.get
DefaultSettings == Settings(TRUE, 0)

\* the cues of the file the page is watched with
PageSubtitles == <<Cue(1, 0, 1), Cue(2, MaxTime, MaxTime)>>
NoSubtitle == [kind |-> "null", items |-> <<>>]
PageFile == [kind |-> "array", items |-> PageSubtitles]

\* new SubtitleOverlay(): container (and textElement) not yet created; attached
\* tells whether document.body contains the container, fullscreen whether its
\* parent is the fullscreen element and not the body; content is the
\* innerHTML of textElement; hidden is the class of that name on the container
NewOverlay ==
    [container |-> FALSE, attached |-> FALSE, fullscreen |-> FALSE, isVisible |-> FALSE,
     currentText |-> "", content |-> "", hidden |-> FALSE]

\* SubtitleOverlay.init with _createOverlay and _applySettings
OverlayInit(o) ==
    IF o.container
    THEN o
    ELSE [o EXCEPT !.container = TRUE, !.attached = TRUE, !.fullscreen = FALSE,
                   !.content = "", !.hidden = ~o.isVisible]

\* SubtitleOverlay.show; the texts of the model hold no markup, so that
\* sanitizeSubtitleText returns them as they are
OverlayShow(o, text) ==
    LET made == OverlayInit(o)
        written == IF made.currentText # text
                   THEN [made EXCEPT !.currentText = text, !.content = text]
                   ELSE made
    IN  IF ~written.isVisible
        THEN [written EXCEPT !.hidden = FALSE, !.isVisible = TRUE]
        ELSE written

\* SubtitleOverlay.hide
OverlayHide(o) ==
    IF ~o.container
    THEN o
    ELSE IF o.isVisible
         THEN [o EXCEPT !.hidden = TRUE, !.isVisible = FALSE, !.currentText = ""]
         ELSE o

\* SubtitleOverlay.updateSettings: _applySettings rewrites the class list
OverlayUpdateSettings(o) ==
    IF ~o.container THEN o ELSE [o EXCEPT !.hidden = ~o.isVisible]

\* SubtitleOverlay.repair with isHealthy
OverlayRepair(o) ==
    IF ~(o.container /\ o.attached)
    THEN OverlayInit([o EXCEPT !.container = FALSE])
    ELSE o

\* SubtitleOverlay.handleFullscreen(isFullscreen), called as
\* handleFullscreenChange calls it: isFullscreen tells whether the document
\* has a fullscreen element.  appendChild moves the container, also one that
\* had been taken out of the document
OverlayHandleFullscreen(o, isFullscreen) ==
    IF ~o.container
    THEN o
    ELSE IF isFullscreen
    THEN [o EXCEPT !.attached = TRUE, !.fullscreen = TRUE,
                   !.hidden = IF o.isVisible THEN FALSE ELSE @]
    ELSE IF o.fullscreen \/ ~o.attached
    THEN [o EXCEPT !.attached = TRUE, !.fullscreen = FALSE,
                   !.hidden = IF o.isVisible THEN FALSE ELSE @]
    ELSE o

\* SubtitleOverlay.destroy
OverlayDestroy(o) ==
    IF o.container THEN NewOverlay ELSE o

\* the content script just evaluated: every global null, both calls of init
\* still to come (init[1] from DOMContentLoaded or at once, init[2] from
\* setTimeout).  timers and checkers are the interval timers alive in the
\* browser, document the video elements in the page, playing those not paused,
\* listeners those carrying the five handlers; searching tells that a callback
\* of the detection timer waits in Utils.waitForElement; videoId is what
\* Utils.getNetflixVideoId reads from the address of the page; hideTimers
\* counts the 3 s timeouts of showTestSubtitle still to fire
NewPage ==
    [running |-> TRUE, videoId |-> 1,
     videoElement |-> NoVideo, settings |-> NoSettings, isInitialized |-> FALSE,
     updateInterval |-> NoTimer, videoCheckInterval |-> NoTimer,
     timers |-> {}, checkers |-> {},
     engines |-> 0, overlays |-> 0, messageListeners |-> 0, keyListeners |-> 0,
     init |-> <<"ready", "ready">>,
     document |-> {}, playing |-> {}, listeners |-> {}, searching |-> FALSE,
     overlay |-> NewOverlay, hideTimers |-> 0]

\* the state a handler works on; responses and lookups count the calls of
\* sendResponse and of getSubtitleAtTime the handler has made
World ==
    [subtitles |-> subtitles, currentIndex |-> currentIndex, offset |-> offset,
     enabled |-> enabled, page |-> page, storage |-> storage,
     responses |-> 0, lookups |-> 0]

\* the handler has returned (or given way) leaving w
Commit(w) ==
    /\ subtitles' = w.subtitles
    /\ currentIndex' = w.currentIndex
    /\ offset' = w.offset
    /\ enabled' = w.enabled
    /\ page' = w.page
    /\ storage' = w.storage

\* what the page last did
Did(op, t) == [op |-> op, t |-> t]

\* what the page last did, for a handler that may look a time up or answer a
\* message
Ran(op, t, w) == [op |-> op, t |-> t, lookups |-> w.lookups, responses |-> w.responses]

\* the id setInterval hands out: one no live or remembered timer has
Fresh(used) == CHOOSE n \in 1..(Cardinality(used) + 1) : n \notin used

\* variant: the running timer is left alone when a new one is started
StartSubtitleUpdatesStacking(w) ==
    LET id == Fresh(w.page.timers \cup {w.page.updateInterval})
    IN  [w EXCEPT !.page.timers = @ \cup {id}, !.page.updateInterval = id]

\* startSubtitleUpdates
StartSubtitleUpdates(w) ==
    LET id == Fresh(w.page.timers \cup {w.page.updateInterval})
        cleared == IF w.page.updateInterval # NoTimer
                   THEN w.page.timers \ {w.page.updateInterval}
                   ELSE w.page.timers
    IN  [w EXCEPT !.page.timers = cleared \cup {id}, !.page.updateInterval = id]

\* variant: the variable is cleared, the timer is not
StopSubtitleUpdatesLeavingTimer(w) ==
    IF w.page.updateInterval # NoTimer
    THEN [w EXCEPT !.page.updateInterval = NoTimer]
    ELSE w

\* stopSubtitleUpdates
StopSubtitleUpdates(w) ==
    IF w.page.updateInterval # NoTimer
    THEN [w EXCEPT !.page.timers = @ \ {w.page.updateInterval},
                   !.page.updateInterval = NoTimer]
    ELSE w

\* variant: the overlay is left as it is when no cue is found
UpdateSubtitleKeepingShown(w, t) ==
    IF w.page.videoElement = NoVideo \/ w.page.engines = 0
    THEN w
    ELSE IF ~w.page.settings.loaded
    THEN w
    ELSE IF ~w.page.settings.enabled \/ Len(w.subtitles) = 0
    THEN [w EXCEPT !.page.overlay = OverlayHide(@)]
    ELSE LET out == Lookup(w.subtitles, w.currentIndex, w.offset, w.enabled, t)
         IN  [w EXCEPT !.currentIndex = out.index,
                       !.lookups = @ + 1,
                       !.page.overlay = IF out.ret # Null
                                        THEN OverlayShow(@, out.ret.text)
                                        ELSE @]

\* updateSubtitle with videoElement.currentTime = t; reading settings.enabled
\* of a null settings throws, which ends the handler that called
UpdateSubtitle(w, t) ==
    IF w.page.videoElement = NoVideo \/ w.page.engines = 0
    THEN w
    ELSE IF ~w.page.settings.loaded
    THEN w
    ELSE IF ~w.page.settings.enabled \/ Len(w.subtitles) = 0
    THEN [w EXCEPT !.page.overlay = OverlayHide(@)]
    ELSE LET out == Lookup(w.subtitles, w.currentIndex, w.offset, w.enabled, t)
         IN  [w EXCEPT !.currentIndex = out.index,
                       !.lookups = @ + 1,
                       !.page.overlay = IF out.ret # Null
                                        THEN OverlayShow(@, out.ret.text)
                                        ELSE OverlayHide(@)]

\* detachFromVideo
DetachFromVideo(w) ==
    IF w.page.videoElement = NoVideo
    THEN w
    ELSE LET unheard == [w EXCEPT !.page.listeners = @ \ {w.page.videoElement}]
             stopped == StopSubtitleUpdates(unheard)
         IN  [stopped EXCEPT !.page.overlay = OverlayHide(@),
                             !.page.videoElement = NoVideo]

\* attachToVideo(video)
AttachToVideo(w, video) ==
    IF w.page.videoElement = video
    THEN w
    ELSE LET free == IF w.page.videoElement # NoVideo THEN DetachFromVideo(w) ELSE w
             held == [free EXCEPT !.page.videoElement = video,
                                  !.page.listeners = @ \cup {video},
                                  !.page.overlay = OverlayInit(@)]
         IN  IF video \in held.page.playing THEN StartSubtitleUpdates(held) ELSE held

\* startVideoDetection
StartVideoDetection(w) ==
    LET id == Fresh(w.page.checkers \cup {w.page.videoCheckInterval})
        cleared == IF w.page.videoCheckInterval # NoTimer
                   THEN w.page.checkers \ {w.page.videoCheckInterval}
                   ELSE w.page.checkers
    IN  [w EXCEPT !.page.checkers = cleared \cup {id}, !.page.videoCheckInterval = id]

\* the end of init, from startVideoDetection to isInitialized = true
FinishInit(w, i) ==
    LET polled == StartVideoDetection(w)
    IN  [polled EXCEPT !.page.messageListeners = @ + 1,
                       !.page.keyListeners = @ + 1,
                       !.page.isInitialized = TRUE,
                       !.page.init[i] = "done"]

\* init up to await loadSettings(): the guard, the two constructors, and the
\* request to storage
BeginInit(w, i) ==
    IF w.page.isInitialized
    THEN [w EXCEPT !.page.init[i] = "returned"]
    ELSE [w EXCEPT !.subtitles = <<>>, !.currentIndex = -1, !.offset = 0,
                   !.enabled = TRUE,
                   !.page.engines = @ + 1,
                   !.page.overlays = @ + 1,
                   !.page.overlay = NewOverlay,
                   !.page.init[i] = "settings"]

\* loadSettings resumed by storage: with the stored settings (the defaults when
\* none are stored), or with an error, which is logged; then init goes on to
\* await loadSubtitle()
SettingsArrive(w, i, ok) ==
    LET read == IF w.storage.settings.loaded THEN w.storage.settings ELSE DefaultSettings
    IN  IF ok
        THEN [w EXCEPT !.page.settings = read,
                       !.enabled = read.enabled,
                       !.offset = read.subtitleOffset,
                       !.currentIndex = -1,
                       !.page.overlay = OverlayUpdateSettings(@),
                       !.page.init[i] = "subtitle"]
        ELSE [w EXCEPT !.page.init[i] = "subtitle"]

\* loadSubtitle resumed by storage, then init goes on into findAndAttachToVideo:
\* with a video in the document it attaches (to which one is for the selectors
\* and the order of the document to say) and runs to its end, without one it
\* waits in Utils.waitForElement
SubtitleArrives(w, i, ok, video) ==
    LET loaded == IF ok /\ IsArray(w.storage.subtitle)
                  THEN [w EXCEPT !.subtitles = w.storage.subtitle.items,
                                 !.currentIndex = -1]
                  ELSE w
    IN  IF video # NoVideo
        THEN FinishInit(AttachToVideo(loaded, video), i)
        ELSE [loaded EXCEPT !.page.init[i] = "video"]

\* Utils.waitForElement settles for init: with the video that appeared, or
\* with the rejection of its 15 s timeout (video = NoVideo)
WaitEnds(w, i, video) ==
    IF video # NoVideo
    THEN FinishInit(AttachToVideo(w, video), i)
    ELSE FinishInit(w, i)

\* variant: the callback looks only at the variable, not at the document
DetectionTickWhenNull(w, video) ==
    IF w.page.videoElement = NoVideo
    THEN IF video # NoVideo
         THEN LET held == AttachToVideo(w, video)
              IN  [held EXCEPT !.page.overlay = OverlayRepair(@)]
         ELSE [w EXCEPT !.page.searching = TRUE]
    ELSE [w EXCEPT !.page.overlay = OverlayRepair(@)]

\* the callback of the detection timer up to its await
DetectionTick(w, video) ==
    IF w.page.videoElement = NoVideo \/ w.page.videoElement \notin w.page.document
    THEN IF video # NoVideo
         THEN LET held == AttachToVideo(w, video)
              IN  [held EXCEPT !.page.overlay = OverlayRepair(@)]
         ELSE [w EXCEPT !.page.searching = TRUE]
    ELSE [w EXCEPT !.page.overlay = OverlayRepair(@)]

\* Utils.waitForElement settles for the detection timer's callbacks
SearchEnds(w, video) ==
    LET held == IF video # NoVideo THEN AttachToVideo(w, video) ELSE w
    IN  [held EXCEPT !.page.searching = FALSE, !.page.overlay = OverlayRepair(@)]

\* handleEnded
HandleEnded(w) ==
    LET stopped == StopSubtitleUpdates(w)
    IN  [stopped EXCEPT !.page.overlay = OverlayHide(@)]

\* handleSeeked as a handler of the page (HandleSeeked above is the same code
\* seen from the engine)
PageSeeked(w, t) == UpdateSubtitle([w EXCEPT !.currentIndex = -1], t)

\* a message to the content script
Message(type, flag, o, subtitle) ==
    [type |-> type, enabled |-> flag, offset |-> o, subtitle |-> subtitle]

\* sendResponse(...)
SendResponse(w) == [w EXCEPT !.responses = @ + 1]

\* what sanitizeSubtitleText makes of the text of showTestSubtitle
TestText == "test"

\* SubtitleOverlay.showTestSubtitle: the text is shown and a timeout of 3 s set
ShowTestSubtitle(w) ==
    [w EXCEPT !.page.overlay = OverlayShow(@, TestText), !.page.hideTimers = @ + 1]

\* handleMessage; t is videoElement.currentTime.  A TypeError (settings is
\* null, or loadSubtitles refuses its argument) ends the handler where it is,
\* before its sendResponse
HandleMessage(w, m, t) ==
    CASE m.type = "CHECK_VIDEO" -> SendResponse(w)
      [] m.type = "SUBTITLE_LOADED" ->
            IF m.subtitle.kind = "null"
            THEN SendResponse(w)
            ELSE IF IsArray(m.subtitle)
            THEN SendResponse([w EXCEPT !.subtitles = m.subtitle.items,
                                        !.currentIndex = -1])
            ELSE w
      [] m.type = "SUBTITLE_UNLOADED" ->
            SendResponse([w EXCEPT !.subtitles = <<>>, !.currentIndex = -1,
                                   !.page.overlay = OverlayHide(@)])
      [] m.type = "TOGGLE_SUBTITLES" ->
            IF ~w.page.settings.loaded
            THEN w
            ELSE SendResponse(
                     [w EXCEPT !.page.settings.enabled = m.enabled,
                               !.enabled = m.enabled,
                               !.page.overlay = IF ~m.enabled THEN OverlayHide(@) ELSE @])
      [] m.type = "OFFSET_CHANGED" ->
            IF ~w.page.settings.loaded
            THEN w
            ELSE SendResponse(
                     UpdateSubtitle([w EXCEPT !.page.settings.subtitleOffset = m.offset,
                                              !.offset = m.offset,
                                              !.currentIndex = -1], t))
      [] m.type = "SETTINGS_UPDATED" ->
            SendResponse([w EXCEPT !.page.settings = Settings(m.enabled, m.offset),
                                   !.enabled = m.enabled,
                                   !.offset = m.offset,
                                   !.currentIndex = -1,
                                   !.page.overlay = OverlayUpdateSettings(@)])
      [] m.type = "TEST_SUBTITLE" -> SendResponse(ShowTestSubtitle(w))
      [] OTHER -> SendResponse(w)

\* adjustOffsetFromKeyboard(delta)
AdjustOffsetFromKeyboard(w, delta, t) ==
    LET moved == w.page.settings.subtitleOffset + delta
        set == [w EXCEPT !.page.settings.subtitleOffset = moved,
                         !.offset = moved,
                         !.currentIndex = -1]
    IN  UpdateSubtitle([set EXCEPT !.storage.settings = set.page.settings], t)

\* handleKeyboardShortcut for a key pressed with Ctrl ("S" with Shift too);
\* with settings null every shortcut throws on its first statement
HandleKeyboardShortcut(w, key, t) ==
    IF ~w.page.settings.loaded
    THEN w
    ELSE CASE key = "S" ->
                LET flag == ~w.page.settings.enabled
                    set == [w EXCEPT !.page.settings.enabled = flag,
                                     !.enabled = flag,
                                     !.page.overlay = IF ~flag THEN OverlayHide(@) ELSE @]
                IN  [set EXCEPT !.storage.settings = set.page.settings]
           [] key = "ArrowRight" -> AdjustOffsetFromKeyboard(w, 1, t)
           [] key = "ArrowLeft" -> AdjustOffsetFromKeyboard(w, -1, t)
           [] key \in {"ArrowUp", "ArrowDown"} ->
                [w EXCEPT !.page.overlay = OverlayUpdateSettings(@),
                          !.storage.settings = w.page.settings]
           [] key = "0" ->
                LET set == [w EXCEPT !.page.settings.subtitleOffset = 0,
                                     !.offset = 0,
                                     !.currentIndex = -1]
                IN  UpdateSubtitle([set EXCEPT !.storage.settings = set.page.settings], t)
           [] OTHER -> w

RECURSIVE MessageHeard(_, _, _, _)
\* the listener of setupMessageListener, registered n times, runs n times for
\* one message
MessageHeard(w, m, t, n) ==
    IF n = 0 THEN w ELSE MessageHeard(HandleMessage(w, m, t), m, t, n - 1)

RECURSIVE KeyHeard(_, _, _, _)
\* the keydown listener, registered n times, runs n times for one key
KeyHeard(w, key, t, n) ==
    IF n = 0 THEN w ELSE KeyHeard(HandleKeyboardShortcut(w, key, t), key, t, n - 1)

---------------------------------------------------------------------------
(* The page: the content script with the events of the browser *)

MaxHides == 1       \* timeouts of showTestSubtitle that may be pending

Messages ==
    {Message("CHECK_VIDEO", FALSE, 0, NoSubtitle),
     Message("SUBTITLE_UNLOADED", FALSE, 0, NoSubtitle),
     Message("UNKNOWN", FALSE, 0, NoSubtitle)}
    \cup {Message("SUBTITLE_LOADED", FALSE, 0, x) :
              x \in {PageFile, NoSubtitle, [kind |-> "object", items |-> <<>>]}}
    \cup {Message("TOGGLE_SUBTITLES", f, 0, NoSubtitle) : f \in BOOLEAN}
    \cup {Message("OFFSET_CHANGED", FALSE, o, NoSubtitle) : o \in Offsets}
    \cup {Message("SETTINGS_UPDATED", f, o, NoSubtitle) : f \in BOOLEAN, o \in Offsets}

Keys == {"S", "ArrowRight", "ArrowLeft", "ArrowUp", "0", "A"}

\* what chrome.storage holds when the page opens
Stored(settings, subtitle) ==
    [running |-> TRUE, settings |-> settings, subtitle |-> subtitle]

InitPage ==
    /\ subtitles = <<>>
    /\ currentIndex = -1
    /\ offset = 0
    /\ enabled = TRUE
    /\ last = Did("load", 0)
    /\ script = Idle
    /\ page = NewPage
    /\ popup = Absent
    /\ storage \in {Stored(s, f) : s \in {NoSettings, Settings(FALSE, MaxOffset)},
                                   f \in {NoSubtitle, PageFile}}
    /\ channel = <<>>

\* a video element of the document, or none
Present == IF page.document = {} THEN {NoVideo} ELSE page.document

\* init is called
CallInit(i) ==
    /\ page.init[i] = "ready"
    /\ Commit(BeginInit(World, i))
    /\ last' = Did("init", i)
    /\ UNCHANGED <<script, popup, channel>>

\* storage answers loadSettings
AnswerSettings(i, ok) ==
    /\ page.init[i] = "settings"
    /\ Commit(SettingsArrive(World, i, ok))
    /\ last' = Did("loadSettings", i)
    /\ UNCHANGED <<script, popup, channel>>

\* storage answers loadSubtitle
AnswerSubtitle(i, ok) ==
    /\ page.init[i] = "subtitle"
    /\ \E video \in Present : Commit(SubtitleArrives(World, i, ok, video))
    /\ last' = Did("loadSubtitle", i)
    /\ UNCHANGED <<script, popup, channel>>

\* the wait of init for a video ends: a video has appeared, or 15 s have passed
EndWait(i) ==
    /\ page.init[i] = "video"
    /\ \E video \in Present : Commit(WaitEnds(World, i, video))
    /\ last' = Did("waitForElement", i)
    /\ UNCHANGED <<script, popup, channel>>

\* the detection timer fires
Detect ==
    /\ page.videoCheckInterval \in page.checkers
    /\ \E video \in Present : Commit(DetectionTick(World, video))
    /\ last' = Did("detect", 0)
    /\ UNCHANGED <<script, popup, channel>>

\* the wait of the detection timer's callbacks ends
EndSearch ==
    /\ page.searching
    /\ \E video \in Present : Commit(SearchEnds(World, video))
    /\ last' = Did("search", 0)
    /\ UNCHANGED <<script, popup, channel>>

\* the site puts a video element into the document, playing or paused
AddVideo(video, plays) ==
    /\ video \notin page.document
    /\ video \notin page.listeners
    /\ page' = [page EXCEPT !.document = @ \cup {video},
                            !.playing = IF plays THEN @ \cup {video} ELSE @ \ {video}]
    /\ last' = Did("addVideo", video)
    /\ UNCHANGED <<subtitles, currentIndex, offset, enabled, script, popup, storage, channel>>

\* the site takes a video element out of the document
RemoveVideo(video) ==
    /\ video \in page.document
    /\ page' = [page EXCEPT !.document = @ \ {video}]
    /\ last' = Did("removeVideo", video)
    /\ UNCHANGED <<subtitles, currentIndex, offset, enabled, script, popup, storage, channel>>

\* a play event on a video; handlePlay runs where it is registered
Play(video) ==
    /\ video \in page.document
    /\ LET w == [World EXCEPT !.page.playing = @ \cup {video}]
       IN  Commit(IF video \in page.listeners THEN StartSubtitleUpdates(w) ELSE w)
    /\ last' = Did("play", video)
    /\ UNCHANGED <<script, popup, channel>>

\* a pause event, with handlePause
Pause(video) ==
    /\ video \in page.document
    /\ LET w == [World EXCEPT !.page.playing = @ \ {video}]
       IN  Commit(IF video \in page.listeners THEN StopSubtitleUpdates(w) ELSE w)
    /\ last' = Did("pause", video)
    /\ UNCHANGED <<script, popup, channel>>

\* an ended event
Ended(video) ==
    /\ video \in page.listeners
    /\ LET w == [World EXCEPT !.page.playing = @ \ {video}]
       IN  Commit(HandleEnded(w))
    /\ last' = Did("ended", video)
    /\ UNCHANGED <<script, popup, channel>>

\* a seeked event
Seeked(video, t) ==
    /\ video \in page.listeners
    /\ Commit(PageSeeked(World, t))
    /\ last' = Ran("seeked", t, PageSeeked(World, t))
    /\ UNCHANGED <<script, popup, channel>>

\* the update timer fires
Tick(t) ==
    /\ page.timers # {}
    /\ Commit(UpdateSubtitle(World, t))
    /\ last' = Ran("tick", t, UpdateSubtitle(World, t))
    /\ UNCHANGED <<script, popup, channel>>

\* a message reaches the page: every registered listener calls handleMessage
\* with it
Receive(m, t) ==
    /\ page.messageListeners > 0
    /\ LET w == MessageHeard(World, m, t, page.messageListeners)
       IN  /\ w.page.hideTimers <= MaxHides
           /\ Commit(w)
           /\ last' = Ran(m.type, t, w)
    /\ UNCHANGED <<script, popup, channel>>

\* a timeout of showTestSubtitle fires
HideTimeout ==
    /\ page.hideTimers > 0
    /\ page' = [page EXCEPT !.hideTimers = @ - 1, !.overlay = OverlayHide(@)]
    /\ last' = Did("hideTimeout", 0)
    /\ UNCHANGED <<subtitles, currentIndex, offset, enabled, script, popup, storage, channel>>

\* a key is pressed with Ctrl; the offset stays within the bounds
Press(key, t) ==
    /\ page.keyListeners > 0
    /\ LET w == KeyHeard(World, key, t, page.keyListeners)
       IN  /\ w.offset \in Offsets
           /\ w.page.settings.subtitleOffset \in Offsets
           /\ Commit(w)
           /\ last' = Ran(key, t, w)
    /\ UNCHANGED <<script, popup, channel>>

\* the page and its video: start-up, the coming and going of video elements
\* and their events
NextPlayer ==
    \/ \E i \in 1..2 : CallInit(i)
    \/ \E i \in 1..2, ok \in BOOLEAN : AnswerSettings(i, ok)
    \/ \E i \in 1..2, ok \in BOOLEAN : AnswerSubtitle(i, ok)
    \/ \E i \in 1..2 : EndWait(i)
    \/ Detect
    \/ EndSearch
    \/ \E video \in Videos, plays \in BOOLEAN : AddVideo(video, plays)
    \/ \E video \in Videos : RemoveVideo(video)
    \/ \E video \in Videos : Play(video)
    \/ \E video \in Videos : Pause(video)
    \/ \E video \in Videos : Ended(video)
    \/ \E video \in Videos, t \in VideoTimes : Seeked(video, t)
    \/ \E t \in VideoTimes : Tick(t)

SpecPlayer == InitPage /\ [][NextPlayer]_vars

\* the page and its settings: start-up, messages and keyboard shortcuts
NextSettings ==
    \/ \E i \in 1..2 : CallInit(i)
    \/ \E i \in 1..2, ok \in BOOLEAN : AnswerSettings(i, ok)
    \/ \E i \in 1..2, ok \in BOOLEAN : AnswerSubtitle(i, ok)
    \/ \E i \in 1..2 : EndWait(i)
    \/ \E plays \in BOOLEAN : AddVideo(1, plays)
    \/ \E m \in Messages : Receive(m, 0)
    \/ \E key \in Keys : Press(key, 0)

SpecSettings == InitPage /\ [][NextSettings]_vars

\* the cues of the page's file with its blocks in the other order
UnsortedFile ==
    [kind |-> "array", items |-> <<Cue(1, MaxTime, MaxTime), Cue(2, 0, 1)>>]

\* what the popup and the background page send while a title is watched
WatchMessages ==
    Messages
    \cup {Message("TEST_SUBTITLE", FALSE, 0, NoSubtitle),
          Message("SUBTITLE_LOADED", FALSE, 0, UnsortedFile)}

\* the page after start-up with a video in its document, playing or paused:
\* one init has run to its end, the other has returned at the guard; ok tells
\* whether storage answered loadSettings
Watching(plays, ok) ==
    LET opened == [subtitles |-> <<>>, currentIndex |-> -1, offset |-> 0, enabled |-> TRUE,
                   page |-> [NewPage EXCEPT !.document = {1},
                                            !.playing = IF plays THEN {1} ELSE {}],
                   storage |-> Stored(NoSettings, PageFile),
                   responses |-> 0, lookups |-> 0]
        first == SubtitleArrives(SettingsArrive(BeginInit(opened, 1), 1, ok), 1, TRUE, 1)
    IN  BeginInit(first, 2)

InitWatch ==
    \E plays \in BOOLEAN, ok \in BOOLEAN :
        /\ subtitles = Watching(plays, ok).subtitles
        /\ currentIndex = Watching(plays, ok).currentIndex
        /\ offset = Watching(plays, ok).offset
        /\ enabled = Watching(plays, ok).enabled
        /\ page = Watching(plays, ok).page
        /\ storage = Watching(plays, ok).storage
        /\ popup = Absent
        /\ channel = <<>>
        /\ last = Did("load", 0)
        /\ script = Idle

\* videoElement.currentTime when a message or a key arrives: any time for the
\* handlers that go on to updateSubtitle, 0 for those that never read it
TimesRead(op) ==
    IF op \in {"OFFSET_CHANGED", "ArrowRight", "ArrowLeft", "0"} THEN VideoTimes ELSE {0}

\* a title is watched on the video the page started with: the events of the
\* video, the messages, the keys and the timers
NextWatch ==
    \/ Play(1)
    \/ Pause(1)
    \/ Ended(1)
    \/ \E t \in VideoTimes : Seeked(1, t)
    \/ \E t \in VideoTimes : Tick(t)
    \/ \E m \in WatchMessages : \E t \in TimesRead(m.type) : Receive(m, t)
    \/ \E key \in Keys : \E t \in TimesRead(key) : Press(key, t)
    \/ HideTimeout

SpecWatch == InitWatch /\ [][NextWatch]_vars

\* a title is watched while the site replaces its video element: the events
\* of the videos, the detection timer, the messages, the keys and the timers,
\* with every video standing at time 0
NextPolling ==
    \/ Detect
    \/ EndSearch
    \/ \E video \in Videos, plays \in BOOLEAN : AddVideo(video, plays)
    \/ \E video \in Videos : RemoveVideo(video)
    \/ \E video \in Videos : Play(video)
    \/ \E video \in Videos : Pause(video)
    \/ \E video \in Videos : Ended(video)
    \/ \E video \in Videos : Seeked(video, 0)
    \/ Tick(0)
    \/ \E m \in Messages : Receive(m, 0)
    \/ \E key \in Keys : Press(key, 0)

SpecPolling == InitWatch /\ [][NextPolling]_vars

---------------------------------------------------------------------------
(* Navigation inside the site: video elements come and go under a page that  *)
(* has started up. Once the page's own video is out of the document the site *)
(* leaves the remaining elements alone until the page has caught up. The     *)
(* detection timer is a setInterval that nothing clears after start-up, so   *)
(* its callback keeps firing: weak fairness of Detect.                       *)

\* the site takes a video element out of the document
SiteRemoves(video) ==
    /\ video \in page.document
    /\ page.videoElement \in page.document
    /\ page' = [page EXCEPT !.document = @ \ {video}]
    /\ last' = Did("removeVideo", video)
    /\ UNCHANGED <<subtitles, currentIndex, offset, enabled, script, popup, storage, channel>>

NextReattach ==
    \/ Detect
    \/ EndSearch
    \/ \E video \in Videos, plays \in BOOLEAN : AddVideo(video, plays)
    \/ \E video \in Videos : SiteRemoves(video)
    \/ \E video \in Videos : Play(video)
    \/ \E video \in Videos : Pause(video)

SpecReattach == InitWatch /\ [][NextReattach]_vars /\ WF_vars(Detect)

(* The overlay on its own: a SubtitleOverlay whose methods are called in any *)
(* order, in a document out of which the site may take its container         *)

\* what show is called with
OverlayTexts == {Texts[1], Texts[2]}

\* the content script after its two constructors
InitOverlay ==
    /\ subtitles = <<>>
    /\ currentIndex = -1
    /\ offset = 0
    /\ enabled = TRUE
    /\ last = Did("new", 0)
    /\ script = Idle
    /\ page = [NewPage EXCEPT !.engines = 1, !.overlays = 1]
    /\ popup = Absent
    /\ storage = Absent
    /\ channel = <<>>

\* the method of the overlay last called, and the text it was called with
Said(op, text) == [op |-> op, t |-> 0, text |-> text]

CallInitOverlay ==
    /\ page' = [page EXCEPT !.overlay = OverlayInit(@)]
    /\ last' = Said("init", "")
    /\ UNCHANGED <<subtitles, currentIndex, offset, enabled, script, popup, storage, channel>>

Show(text) ==
    /\ page' = [page EXCEPT !.overlay = OverlayShow(@, text)]
    /\ last' = Said("show", text)
    /\ UNCHANGED <<subtitles, currentIndex, offset, enabled, script, popup, storage, channel>>

Hide ==
    /\ page' = [page EXCEPT !.overlay = OverlayHide(@)]
    /\ last' = Said("hide", "")
    /\ UNCHANGED <<subtitles, currentIndex, offset, enabled, script, popup, storage, channel>>

UpdateSettings ==
    /\ page' = [page EXCEPT !.overlay = OverlayUpdateSettings(@)]
    /\ last' = Said("updateSettings", "")
    /\ UNCHANGED <<subtitles, currentIndex, offset, enabled, script, popup, storage, channel>>

HandleFullscreen(isFullscreen) ==
    /\ page' = [page EXCEPT !.overlay = OverlayHandleFullscreen(@, isFullscreen)]
    /\ last' = Said("handleFullscreen", "")
    /\ UNCHANGED <<subtitles, currentIndex, offset, enabled, script, popup, storage, channel>>

Repair ==
    /\ page' = [page EXCEPT !.overlay = OverlayRepair(@)]
    /\ last' = Said("repair", "")
    /\ UNCHANGED <<subtitles, currentIndex, offset, enabled, script, popup, storage, channel>>

Destroy ==
    /\ page' = [page EXCEPT !.overlay = OverlayDestroy(@)]
    /\ last' = Said("destroy", "")
    /\ UNCHANGED <<subtitles, currentIndex, offset, enabled, script, popup, storage, channel>>

\* showTestSubtitle is called
ShowTest ==
    /\ page.hideTimers < MaxHides
    /\ page' = ShowTestSubtitle(World).page
    /\ last' = Said("showTestSubtitle", TestText)
    /\ UNCHANGED <<subtitles, currentIndex, offset, enabled, script, popup, storage, channel>>

\* the site rebuilds its page and the container goes with what it replaces
RemoveContainer ==
    /\ page.overlay.container
    /\ page.overlay.attached
    /\ page' = [page EXCEPT !.overlay = [@ EXCEPT !.attached = FALSE, !.fullscreen = FALSE]]
    /\ last' = Said("removeContainer", "")
    /\ UNCHANGED <<subtitles, currentIndex, offset, enabled, script, popup, storage, channel>>

NextOverlay ==
    \/ CallInitOverlay
    \/ \E text \in OverlayTexts : Show(text)
    \/ Hide
    \/ UpdateSettings
    \/ \E isFullscreen \in BOOLEAN : HandleFullscreen(isFullscreen)
    \/ Repair
    \/ Destroy
    \/ ShowTest
    \/ HideTimeout
    \/ RemoveContainer

SpecOverlay == InitOverlay /\ [][NextOverlay]_vars

---------------------------------------------------------------------------
(* The popup.  It shares chrome.storage with the content script and talks   *)
(* to it by messages, which the browser delivers in the order sent.  The     *)
(* page it talks to has started up: one init has run to its end with a       *)
(* video in the document, the other has returned at the guard.               *)

MaxPending == 1      \* messages that may be waiting for the content script
MaxFileSize == 5242880

VideoIds == 1..MaxVideos   \* the ids of the /watch/ pages, as many as video elements
NoVideoId == 0             \* let currentVideoId = null

\* chrome.storage.local has (or has not) a delay_<id> entry
Delay(d) == [set |-> TRUE, value |-> d]
NoDelay == [set |-> FALSE, value |-> 0]

\* parseTimestamp of the popup
PopupParseTimestamp(hours, minutes, seconds, milliseconds) ==
    ParseInt(hours) * 3600000 + ParseInt(minutes) * 60000
        + ParseInt(seconds) * 1000 + ParseInt(milliseconds)

\* the body of the loop of the popup's parseSRT: the text is what follows the
\* timestamp line, as it is
PopupParseBlock(block) ==
    LET lines == Trim(block)
    IN  IF Len(lines) < 3 THEN <<>>
        ELSE IF ~Matches(lines[2]) THEN <<>>
        ELSE LET g1 == StartGroups(lines[2])
                 g2 == EndGroups(lines[2])
             IN  <<Entry(PopupParseTimestamp(g1.h, g1.m, g1.s, g1.ms),
                         PopupParseTimestamp(g2.h, g2.m, g2.s, g2.ms),
                         SubSeq(lines, 3, Len(lines)))>>

RECURSIVE PopupParseBlocks(_)
PopupParseBlocks(blocks) ==
    IF blocks = <<>> THEN <<>>
    ELSE PopupParseBlock(Head(blocks)) \o PopupParseBlocks(Tail(blocks))

\* parseSRT of the popup
PopupParseSRT(content) == PopupParseBlocks(Split(Trim(content), <<>>))

\* a file picked in the file input: whether its name ends in .srt, its size in
\* bytes, and its text (for a file of megabytes, the part of it that matters)
File(srt, size, content) == [srt |-> srt, size |-> size, content |-> content]

OneBlockFile ==
    <<TextLine("1", FALSE, FALSE),
      TimeLine(AtMillis(1000), AtMillis(4000)),
      TextLine("World", TRUE, TRUE)>>

\* texts with two entries, one entry, and none: no timestamp line, no ordinal
\* line, nothing at all
FileTexts ==
    {TwoBlockFile,
     OneBlockFile,
     <<TextLine("1", FALSE, FALSE), TextLine("World", TRUE, TRUE),
       TextLine("World", TRUE, TRUE)>>,
     <<TimeLine(AtMillis(1000), AtMillis(4000)), TextLine("World", TRUE, TRUE)>>,
     <<>>}

\* every text in a small .srt file; a good text under another name, at the
\* size limit and over it; and a file with everything wrong
Files ==
    {File(TRUE, 1024, content) : content \in FileTexts}
    \cup {File(FALSE, 1024, TwoBlockFile),
          File(TRUE, MaxFileSize, OneBlockFile),
          File(TRUE, MaxFileSize + 1, TwoBlockFile),
          File(FALSE, MaxFileSize + 1, <<>>)}

\* let currentSettings = {...}: the fields the popup's timing controls use
PopupSettings(e, o) == [enabled |-> e, subtitleOffset |-> o, rememberDelayPerVideo |-> TRUE]

\* no popup is open; each opening starts from the script's initial values
ClosedPopup ==
    [running |-> TRUE, at |-> "closed", currentSettings |-> PopupSettings(TRUE, 0),
     currentSubtitle |-> NoSubtitle, currentVideoId |-> NoVideoId]

\* chrome.storage after installation: the default settings, no subtitle, no
\* delay; metadata is the entryCount of subtitleMetadata, 0 when there is none
FreshStorage ==
    [running |-> TRUE, settings |-> DefaultSettings, subtitle |-> NoSubtitle,
     metadata |-> 0, delays |-> [id \in VideoIds |-> NoDelay]]

\* the page after start-up with the first video in its document
StartedPage ==
    LET opened == [subtitles |-> <<>>, currentIndex |-> -1, offset |-> 0, enabled |-> TRUE,
                   page |-> [NewPage EXCEPT !.document = {1}], storage |-> FreshStorage,
                   responses |-> 0, lookups |-> 0]
        first == SubtitleArrives(SettingsArrive(BeginInit(opened, 1), 1, TRUE), 1, TRUE, 1)
    IN  BeginInit(first, 2)

InitPopup ==
    /\ subtitles = StartedPage.subtitles
    /\ currentIndex = StartedPage.currentIndex
    /\ offset = StartedPage.offset
    /\ enabled = StartedPage.enabled
    /\ page = StartedPage.page
    /\ storage = StartedPage.storage
    /\ popup = ClosedPopup
    /\ channel = <<>>
    /\ last = Did("load", 0)
    /\ script = Idle

\* the popup is opened: loadSettings, loadSubtitleStatus, and checkVideoStatus
\* up to its chrome.tabs.sendMessage
OpenPopup ==
    /\ popup.at = "closed"
    /\ popup' = [popup EXCEPT
                    !.at = "checking",
                    !.currentSettings =
                        IF storage.settings.loaded
                        THEN PopupSettings(storage.settings.enabled,
                                           storage.settings.subtitleOffset)
                        ELSE @,
                    !.currentSubtitle =
                        IF IsArray(storage.subtitle) THEN storage.subtitle ELSE @]
    /\ last' = Did("open", 0)
    /\ UNCHANGED <<subtitles, currentIndex, offset, enabled, script, page, storage, channel>>

\* the callback of CHECK_VIDEO: the content script has answered with
\* videoDetected and videoId, or there was nobody to answer
CheckVideoAnswered ==
    /\ popup.at = "checking"
    /\ popup' = IF page.messageListeners > 0 /\ page.videoElement # NoVideo
                THEN [popup EXCEPT
                         !.currentVideoId = page.videoId,
                         !.at = IF popup.currentSettings.rememberDelayPerVideo
                                   /\ page.videoId # NoVideoId
                                THEN "delay" ELSE "open"]
                ELSE [popup EXCEPT !.at = "open"]
    /\ last' = Did("checkVideoStatus", page.videoId)
    /\ UNCHANGED <<subtitles, currentIndex, offset, enabled, script, page, storage, channel>>

\* the callback of loadVideoDelay
LoadVideoDelay ==
    /\ popup.at = "delay"
    /\ LET delay == storage.delays[popup.currentVideoId]
       IN  popup' = [popup EXCEPT
                        !.at = "open",
                        !.currentSettings.subtitleOffset =
                            IF delay.set THEN delay.value ELSE @]
    /\ last' = Did("loadVideoDelay", popup.currentVideoId)
    /\ UNCHANGED <<subtitles, currentIndex, offset, enabled, script, page, storage, channel>>

\* saveSettings, then saveVideoDelay(currentVideoId, o), on the storage
Saved(o) ==
    LET kept == [storage EXCEPT !.settings = Settings(popup.currentSettings.enabled, o)]
    IN  IF popup.currentSettings.rememberDelayPerVideo /\ popup.currentVideoId # NoVideoId
        THEN [kept EXCEPT !.delays[popup.currentVideoId] = Delay(o)]
        ELSE kept

\* adjustOffset(delta): a timing button is clicked; the offset stays within
\* the bounds
AdjustOffset(delta) ==
    /\ popup.at # "closed"
    /\ Len(channel) < MaxPending
    /\ LET moved == popup.currentSettings.subtitleOffset + delta
       IN  /\ moved \in Offsets
           /\ popup' = [popup EXCEPT !.currentSettings.subtitleOffset = moved]
           /\ storage' = Saved(moved)
           /\ channel' = Append(channel, Message("OFFSET_CHANGED", FALSE, moved, NoSubtitle))
           /\ last' = Did("adjustOffset", moved)
    /\ UNCHANGED <<subtitles, currentIndex, offset, enabled, script, page>>

\* resetTiming
ResetTiming ==
    /\ popup.at # "closed"
    /\ Len(channel) < MaxPending
    /\ popup' = [popup EXCEPT !.currentSettings.subtitleOffset = 0]
    /\ storage' = Saved(0)
    /\ channel' = Append(channel, Message("OFFSET_CHANGED", FALSE, 0, NoSubtitle))
    /\ last' = Did("resetTiming", 0)
    /\ UNCHANGED <<subtitles, currentIndex, offset, enabled, script, page>>

\* what handleFileUpload was given and whether it went through
Upload(file, stored) == [op |-> "handleFileUpload", t |-> 0, file |-> file, stored |-> stored]

\* variant: an empty result is stored like any other
HandleFileUploadStoringEmpty(file) ==
    /\ popup.at # "closed"
    /\ Len(channel) < MaxPending
    /\ IF ~file.srt \/ file.size > MaxFileSize
       THEN /\ last' = Upload(file, FALSE)
            /\ UNCHANGED <<popup, storage, channel>>
       ELSE LET parsedSubtitle == [kind |-> "array", items |-> PopupParseSRT(file.content)]
            IN  /\ storage' = [storage EXCEPT !.subtitle = parsedSubtitle,
                                              !.metadata = Len(parsedSubtitle.items)]
                /\ popup' = [popup EXCEPT !.currentSubtitle = parsedSubtitle]
                /\ channel' = Append(channel, Message("SUBTITLE_LOADED", FALSE, 0, parsedSubtitle))
                /\ last' = Upload(file, TRUE)
    /\ UNCHANGED <<subtitles, currentIndex, offset, enabled, script, page>>

\* handleFileUpload for a file that can be read and a storage that takes it
HandleFileUpload(file) ==
    /\ popup.at # "closed"
    /\ Len(channel) < MaxPending
    /\ IF ~file.srt \/ file.size > MaxFileSize
       THEN /\ last' = Upload(file, FALSE)
            /\ UNCHANGED <<popup, storage, channel>>
       ELSE LET parsedSubtitle == [kind |-> "array", items |-> PopupParseSRT(file.content)]
            IN  IF Len(parsedSubtitle.items) = 0
                THEN /\ last' = Upload(file, FALSE)
                     /\ UNCHANGED <<popup, storage, channel>>
                ELSE /\ storage' = [storage EXCEPT !.subtitle = parsedSubtitle,
                                                   !.metadata = Len(parsedSubtitle.items)]
                     /\ popup' = [popup EXCEPT !.currentSubtitle = parsedSubtitle]
                     /\ channel' = Append(channel, Message("SUBTITLE_LOADED", FALSE, 0, parsedSubtitle))
                     /\ last' = Upload(file, TRUE)
    /\ UNCHANGED <<subtitles, currentIndex, offset, enabled, script, page>>

\* handleUnload with the callback of chrome.storage.local.remove
HandleUnload ==
    /\ popup.at # "closed"
    /\ Len(channel) < MaxPending
    /\ storage' = [storage EXCEPT !.subtitle = NoSubtitle, !.metadata = 0]
    /\ popup' = [popup EXCEPT !.currentSubtitle = NoSubtitle]
    /\ channel' = Append(channel, Message("SUBTITLE_UNLOADED", FALSE, 0, NoSubtitle))
    /\ last' = Did("handleUnload", 0)
    /\ UNCHANGED <<subtitles, currentIndex, offset, enabled, script, page>>

\* the popup is closed
ClosePopup ==
    /\ popup.at # "closed"
    /\ popup' = ClosedPopup
    /\ last' = Did("close", 0)
    /\ UNCHANGED <<subtitles, currentIndex, offset, enabled, script, page, storage, channel>>

\* the oldest message reaches the content script, whose video stands at 0
Deliver ==
    /\ channel # <<>>
    /\ Commit(MessageHeard(World, Head(channel), 0, page.messageListeners))
    /\ channel' = Tail(channel)
    /\ last' = Did(Head(channel).type, 0)
    /\ UNCHANGED <<script, popup>>

\* the viewer goes to another title; the site keeps the video element
Navigate(id) ==
    /\ id # page.videoId
    /\ page' = [page EXCEPT !.videoId = id]
    /\ last' = Did("navigate", id)
    /\ UNCHANGED <<subtitles, currentIndex, offset, enabled, script, popup, storage, channel>>

NextPopup ==
    \/ OpenPopup
    \/ CheckVideoAnswered
    \/ LoadVideoDelay
    \/ \E delta \in {-1, 1} : AdjustOffset(delta)
    \/ ResetTiming
    \/ \E file \in Files : HandleFileUpload(file)
    \/ HandleUnload
    \/ ClosePopup
    \/ Deliver
    \/ \E id \in VideoIds : Navigate(id)

SpecPopup == InitPopup /\ [][NextPopup]_vars

---------------------------------------------------------------------------
(* Vocabulary of the properties *)

\* the last call was getSubtitleAtTime
Looked == last.op = "getSubtitleAtTime"

\* the adjusted time of the last lookup (offset is unchanged by a lookup)
Adjusted == last.t + offset

SortedByStart(subs) == \A i \in 1..(Len(subs) - 1) : subs[i].start <= subs[i + 1].start

\* sorted ascending by start, each cue ending strictly before the next starts
WellFormed(subs) ==
    /\ SortedByStart(subs)
    /\ \A i \in 1..(Len(subs) - 1) : subs[i].end < subs[i + 1].start

\* no two cues share a time, whatever their order
PairwiseDisjoint(subs) ==
    \A i, j \in 1..Len(subs) :
        i # j => (subs[i].end < subs[j].start \/ subs[j].end < subs[i].start)

\* the cue's interval, both ends included, contains the time
Covers(cue, time) == cue.start <= time /\ time <= cue.end

\* positions (one-based) of the cues that contain the time
Containing(subs, time) == {i \in 1..Len(subs) : Covers(subs[i], time)}

\* the time falls before the first cue, after the last, or strictly between two
\* consecutive cues
InGap(subs, time) ==
    /\ Len(subs) > 0
    /\ \/ time < subs[1].start
       \/ time > subs[Len(subs)].end
       \/ \E i \in 1..(Len(subs) - 1) : subs[i].end < time /\ time < subs[i + 1].start

\* strictly between two consecutive cues
InInnerGap(subs, time) ==
    \E i \in 1..(Len(subs) - 1) : subs[i].end < time /\ time < subs[i + 1].start

---------------------------------------------------------------------------
---------------------------------------------------------------------------
(* C2: on a loaded, enabled engine with a well-formed sequence, a lookup     *)
(* whose adjusted time falls in a gap (before the first cue, after the last, *)
(* or strictly between two consecutive cues) returns null from every cursor. *)
GapReturnsNull ==
    (Looked /\ enabled /\ WellFormed(subtitles) /\ InGap(subtitles, Adjusted)) =>
        last.ret = Null

\* a lookup strictly between two cues, made with the cursor on a cue
GapWitness ==
    /\ Looked /\ enabled /\ WellFormed(subtitles)
    /\ InInnerGap(subtitles, Adjusted)
    /\ last.from >= 0
    /\ last.ret = Null

---------------------------------------------------------------------------
(* C3: while the engine is disabled or holds no cues, a lookup returns null  *)
(* for every time and leaves the cursor where it was.                        *)
InactiveReturnsNull ==
    (Looked /\ (~enabled \/ Len(subtitles) = 0)) =>
        (last.ret = Null /\ currentIndex = last.from)

\* a disabled engine asked for a time strictly inside the cue its cursor is on
InactiveWitness ==
    /\ Looked /\ ~enabled
    /\ last.from >= 0
    /\ At(subtitles, last.from).start < Adjusted
    /\ Adjusted < At(subtitles, last.from).end
    /\ last.ret = Null

---------------------------------------------------------------------------
---------------------------------------------------------------------------
(* C5: loadSubtitles(x) with an array x returns normally, makes x the        *)
(* sequence and sets the cursor to -1, keeping offset and enable flag; with  *)
(* anything else it throws and leaves all four fields as they were.          *)
LoadContract ==
    [][last'.op = "loadSubtitles" =>
          IF IsArray(last'.arg)
          THEN /\ ~last'.threw
               /\ subtitles' = last'.arg.items
               /\ currentIndex' = -1
               /\ UNCHANGED <<offset, enabled>>
          ELSE /\ last'.threw
               /\ UNCHANGED engine]_vars

\* a rejected load on an engine whose four fields all differ from a fresh engine's
LoadWitness ==
    /\ last.op = "loadSubtitles" /\ last.threw
    /\ Len(subtitles) > 0 /\ currentIndex >= 0 /\ offset # 0 /\ ~enabled

---------------------------------------------------------------------------
(* C6: the cursor is always an integer between -1 and N-1, N the length of   *)
(* the current sequence.                                                     *)
CursorRange ==
    /\ currentIndex \in Int
    /\ -1 <= currentIndex
    /\ currentIndex <= Len(subtitles) - 1

\* a seek whose lookup left the cursor on the last of several cues
CursorRangeWitness ==
    /\ last.op = "handleSeeked"
    /\ Len(subtitles) >= 2
    /\ currentIndex = Len(subtitles) - 1

---------------------------------------------------------------------------
(* C7 as stated: on a sequence sorted by start whose consecutive cues may    *)
(* share an endpoint, a lookup returns the same value from every cursor.     *)
CursorIndependenceTouching ==
    (Looked /\ SortedByStart(subtitles) /\ Ascending(subtitles)) =>
        \A c \in -1..(Len(subtitles) - 1) :
            Lookup(subtitles, c, offset, enabled, last.t).ret = last.ret

(* C7 amended: on a sequence sorted by start whose cues each end strictly    *)
(* before the next starts, a lookup returns the same value from every cursor *)
(* in -1..N-1.                                                               *)
CursorIndependence ==
    (Looked /\ WellFormed(subtitles)) =>
        \A c \in -1..(Len(subtitles) - 1) :
            Lookup(subtitles, c, offset, enabled, last.t).ret = last.ret

\* a lookup from the last of three cues that found the first one
CursorIndependenceWitness ==
    /\ Looked /\ WellFormed(subtitles)
    /\ Len(subtitles) >= 3
    /\ last.from = Len(subtitles) - 1
    /\ last.ret = subtitles[1]

---------------------------------------------------------------------------
(* C8 as stated: on pairwise disjoint cues that are not sorted by start, a   *)
(* lookup whose adjusted time lies in a cue returns that cue.                *)
UnsortedTolerance ==
    (Looked /\ enabled /\ PairwiseDisjoint(subtitles) /\ ~SortedByStart(subtitles)) =>
        \A i \in Containing(subtitles, Adjusted) : last.ret = subtitles[i]

(* C8 amended: on pairwise disjoint cues that are not sorted by start, a     *)
(* lookup returns null or the cue containing the adjusted time, never        *)
(* another cue, and it does return the containing cue when that cue is at    *)
(* the cursor or next to it.                                                 *)
UnsortedNearCursor ==
    (Looked /\ enabled /\ PairwiseDisjoint(subtitles) /\ ~SortedByStart(subtitles)) =>
        /\ last.ret # Null => Covers(last.ret, Adjusted)
        /\ \A i \in Containing(subtitles, Adjusted) :
               (i - 1) \in {last.from - 1, last.from, last.from + 1} =>
                   last.ret = subtitles[i]

\* on unsorted cues the cue after the cursor, which starts before the cue at
\* the cursor, was found by the forward step
UnsortedWitness ==
    /\ Looked /\ enabled /\ PairwiseDisjoint(subtitles) /\ ~SortedByStart(subtitles)
    /\ last.from >= 0 /\ last.from + 1 < Len(subtitles)
    /\ At(subtitles, last.from + 1).start < At(subtitles, last.from).start
    /\ last.ret = At(subtitles, last.from + 1)
    /\ ~last.searched

---------------------------------------------------------------------------
(* C9: a lookup that returns null leaves the cursor at its prior value; so   *)
(* after a miss in the gap behind the cue at the cursor, a lookup inside the *)
(* next cue is resolved by the forward step, without a search.               *)
NullKeepsCursor ==
    (Looked /\ last.ret = Null) =>
        /\ currentIndex = last.from
        /\ (enabled /\ last.from >= 0 /\ last.from + 1 < Len(subtitles)
              /\ At(subtitles, last.from).end < Adjusted
              /\ Adjusted < At(subtitles, last.from + 1).start) =>
               \A t \in ProbeTimes :
                   Covers(At(subtitles, last.from + 1), t + offset) =>
                       Lookup(subtitles, currentIndex, offset, enabled, t)
                           = Outcome(At(subtitles, last.from + 1), last.from + 1, FALSE)

\* a miss in the gap right behind the cue at the cursor, after a search
NullKeepsCursorWitness ==
    /\ Looked /\ enabled /\ last.ret = Null /\ last.searched
    /\ last.from >= 0 /\ last.from + 1 < Len(subtitles)
    /\ At(subtitles, last.from).end < Adjusted
    /\ Adjusted < At(subtitles, last.from + 1).start
    /\ currentIndex = last.from

---------------------------------------------------------------------------
(* C10: after loading {0-2 a, 3-5 b, 6-8 c} on a fresh engine, lookups at    *)
(* 0.5, 1.5, 3.5, 4.5 and 6.5 s return a, a, b, b, c and none after the      *)
(* first calls _binarySearchSubtitle; and whenever the adjusted time lies in *)
(* the cue at the cursor, the one after it or the one before it, the lookup  *)
(* returns without calling _binarySearchSubtitle.                            *)
PlaybackLocality ==
    /\ script.step >= 2 =>
           /\ last.ret.text = <<"a", "a", "b", "b", "c">>[script.step - 1]
           /\ script.step > 2 => ~last.searched
    /\ (Looked /\ enabled /\ Len(subtitles) > 0
          /\ \E i \in {last.from - 1, last.from, last.from + 1} :
                 i >= 0 /\ i < Len(subtitles) /\ Covers(At(subtitles, i), Adjusted)) =>
           ~last.searched

\* the fifth scripted poll returned "c" by a forward step from "b"
PlaybackLocalityWitness ==
    /\ script.step = 6
    /\ last.t = 13 /\ last.ret.text = "c"
    /\ last.from = 1 /\ currentIndex = 2
    /\ ~last.searched

---------------------------------------------------------------------------
(* C11: setOffset(o) sets the offset to o and the cursor to -1, also when o  *)
(* is the current offset, and leaves the sequence and the enable flag alone. *)
SetOffsetEffect ==
    [][last'.op = "setOffset" =>
          /\ offset' = last'.t
          /\ currentIndex' = -1
          /\ UNCHANGED <<subtitles, enabled>>]_vars

\* setOffset called with the cursor on a cue of a disabled engine
SetOffsetWitness ==
    /\ last.op = "setOffset"
    /\ last.from >= 0 /\ currentIndex = -1
    /\ offset = last.t /\ offset # 0
    /\ Len(subtitles) > 0 /\ ~enabled

---------------------------------------------------------------------------
(* C12 as stated: setEnabled changes only the enable flag, so after          *)
(* setEnabled(false); setEnabled(true) the four fields are what they were    *)
(* before the pair and the next lookup returns what it would have returned   *)
(* without the pair.                                                         *)
TogglePairRestores ==
    /\ script.step = 2 => Snapshot = script.before
    /\ script.step = 3 =>
           LET without == Lookup(script.before.subtitles, script.before.currentIndex,
                                 script.before.offset, script.before.enabled, last.t)
           IN  last.ret = without.ret /\ currentIndex = without.index

(* C12 amended: setEnabled changes only the enable flag; cursor, offset and  *)
(* sequence are unchanged.  After setEnabled(false); setEnabled(true) the    *)
(* engine is enabled and its other three fields are what they were before    *)
(* the pair; if it was enabled before the pair, the state equals the state   *)
(* before the pair and the next lookup returns what it would have returned   *)
(* without the pair.                                                         *)
ToggleKeepsLocality ==
    [][/\ last'.op = "setEnabled" => UNCHANGED <<subtitles, currentIndex, offset>>
       /\ script'.step = 1 => ~enabled'
       /\ script'.step = 2 =>
              /\ enabled'
              /\ <<subtitles', currentIndex', offset'>>
                   = <<script'.before.subtitles, script'.before.currentIndex,
                       script'.before.offset>>
       /\ (script'.step = 3 /\ script'.before.enabled) =>
              LET without == Lookup(script'.before.subtitles, script'.before.currentIndex,
                                    script'.before.offset, TRUE, last'.t)
              IN  last'.ret = without.ret /\ currentIndex' = without.index]_vars

\* after the pair the lookup was answered from the cue the cursor was on
\* before the pair
ToggleWitness ==
    /\ script.step = 3
    /\ script.before.enabled
    /\ script.before.currentIndex >= 0
    /\ last.from = script.before.currentIndex
    /\ last.ret = At(subtitles, last.from)
    /\ ~last.searched

---------------------------------------------------------------------------
(* C13: clearSubtitles() empties the sequence and sets the cursor to -1,     *)
(* keeping offset and enable flag; while the sequence is empty every lookup  *)
(* returns null, and only a loadSubtitles that did not throw ends that.      *)
ClearEffect ==
    [][/\ last'.op = "clearSubtitles" =>
             /\ subtitles' = <<>>
             /\ currentIndex' = -1
             /\ UNCHANGED <<offset, enabled>>
       /\ (Len(subtitles) = 0 /\ last'.op \in {"getSubtitleAtTime", "handleSeeked"}) =>
             last'.ret = Null
       /\ (Len(subtitles) = 0 /\ Len(subtitles') > 0) =>
             (last'.op = "loadSubtitles" /\ ~last'.threw)]_vars

\* clearSubtitles called on a disabled engine with a changed offset and the
\* cursor on a cue
ClearWitness ==
    /\ last.op = "clearSubtitles"
    /\ last.from >= 0 /\ currentIndex = -1
    /\ Len(subtitles) = 0 /\ ~enabled /\ offset # 0

---------------------------------------------------------------------------
(* C14: the seek handler sets the cursor to -1 before it looks the new time  *)
(* up, so what it returns and where it leaves the cursor are those of a      *)
(* lookup from cursor -1, whatever the cursor was before the seek.           *)
SeekResetsCursor ==
    last.op = "handleSeeked" =>
        \E out \in {Outcome(Null, -1, FALSE),
                     Lookup(subtitles, -1, offset, enabled, last.t)} :
            /\ currentIndex = out.index
            /\ last.ret = out.ret
            /\ last.searched = out.searched

\* a seek into a gap from a cursor that was on a cue: the cursor is -1 afterwards
SeekWitness ==
    /\ last.op = "handleSeeked"
    /\ enabled /\ Len(subtitles) > 0
    /\ last.from >= 0
    /\ last.searched /\ last.ret = Null
    /\ currentIndex = -1


---------------------------------------------------------------------------
(* C15: getSubtitlesInRange(s, e) returns exactly the cues x of the sequence *)
(* with x.start <= e + offset and x.end >= s + offset, in sequence order,    *)
(* whether or not the sequence is sorted, the engine enabled, or the cursor  *)
(* on a cue.                                                                  *)
RangeIsFilter ==
    last.op = "getSubtitlesInRange" =>
        LET Keep == {i \in 1..Len(subtitles) :
                        /\ subtitles[i].start <= last.u + offset
                        /\ subtitles[i].end >= last.t + offset}
            Nth(k) == CHOOSE i \in Keep : Cardinality({j \in Keep : j < i}) = k - 1
        IN  /\ Len(last.result) = Cardinality(Keep)
            /\ \A k \in 1..Len(last.result) : last.result[k] = subtitles[Nth(k)]

\* a range query on a disabled engine with an unsorted sequence, a changed
\* offset and the cursor on a cue, returning some of the cues and not all
RangeWitness ==
    /\ last.op = "getSubtitlesInRange"
    /\ ~enabled /\ currentIndex >= 0 /\ offset # 0
    /\ ~SortedByStart(subtitles)
    /\ Len(last.result) = 1 /\ Len(subtitles) = 2
    /\ last.result[1] = subtitles[2]

---------------------------------------------------------------------------
(* C16: the cursor changes only in getSubtitleAtTime, loadSubtitles,          *)
(* clearSubtitles, setOffset, reset and the seek handler; getSubtitlesInRange,*)
(* getStats, getOffset, isEnabled, getSubtitleCount, getSubtitleByIndex,      *)
(* getTotalDuration and exportToSRT leave sequence, cursor, offset and enable *)
(* flag unchanged.                                                            *)
ReadOnlyFrame ==
    [][/\ currentIndex' # currentIndex =>
              last'.op \in {"getSubtitleAtTime", "loadSubtitles", "clearSubtitles",
                            "setOffset", "reset", "handleSeeked"}
       /\ last'.op \in {"getSubtitlesInRange", "getStats", "getOffset", "isEnabled",
                        "getSubtitleCount", "getSubtitleByIndex", "getTotalDuration",
                        "exportToSRT"} =>
              UNCHANGED <<subtitles, currentIndex, offset, enabled>>]_vars

\* getSubtitleByIndex returned a cue other than the one the cursor is on
ReadOnlyWitness ==
    /\ last.op = "getSubtitleByIndex"
    /\ last.result # Null
    /\ currentIndex >= 0 /\ currentIndex # last.t
    /\ last.from = currentIndex
    /\ ~enabled /\ offset # 0

---------------------------------------------------------------------------
(* Vocabulary of the properties of parseSRT *)

\* lines i..j of text c are a block: a longest run of lines that are not blank
IsBlock(c, i, j) ==
    /\ i <= j
    /\ \A k \in i..j : c[k].kind # "blank"
    /\ i = 1 \/ c[i - 1].kind = "blank"
    /\ j = Len(c) \/ c[j + 1].kind = "blank"

BlocksOf(c) == {b \in (1..Len(c)) \X (1..Len(c)) : IsBlock(c, b[1], b[2])}

\* the time HH:MM:SS,mmm stands for, in milliseconds
MillisOf(g) ==
    (10 * g.h[1] + g.h[2]) * 3600000 + (10 * g.m[1] + g.m[2]) * 60000
        + (10 * g.s[1] + g.s[2]) * 1000
        + 100 * g.ms[1] + 10 * g.ms[2] + g.ms[3]

\* lines without the whitespace before the first and after the last of them
Stripped(lines) == [lines EXCEPT ![1].lead = FALSE, ![Len(lines)].trail = FALSE]

\* a timestamp line: HH:MM:SS,mmm --> HH:MM:SS,mmm with two digits for hours,
\* minutes and seconds and three for milliseconds on each side
IsTimestampLine(line) ==
    /\ line.kind = "time"
    /\ \A g \in {line.start, line.end} :
           Len(g.h) = 2 /\ Len(g.m) = 2 /\ Len(g.s) = 2 /\ Len(g.ms) = 3

\* blocks made of a first line, a timestamp line and one or more text lines
FullBlocks(c) ==
    {b \in BlocksOf(c) : b[2] - b[1] >= 2 /\ IsTimestampLine(c[b[1] + 1])}

\* the k-th block of a set of blocks, in the order of the text
NthBlock(blocks, k) ==
    CHOOSE b \in blocks : Cardinality({a \in blocks : a[1] < b[1]}) = k - 1

---------------------------------------------------------------------------
(* C17 as stated: parseSRT maps every block [ordinal line, timestamp line,   *)
(* one or more text lines] to exactly one entry whose start and end are the  *)
(* two timestamps and whose text is the text lines joined by a line break,   *)
(* and the entries are in the order of their blocks.                         *)
EntryPerBlockVerbatim ==
    last.op = "parseSRT" =>
        LET c    == last.content
            full == FullBlocks(c)
        IN  /\ Len(last.result) = Cardinality(full)
            /\ \A k \in 1..Len(last.result) :
                   LET b == NthBlock(full, k)
                   IN  last.result[k] =
                           [start |-> MillisOf(c[b[1] + 1].start),
                            end   |-> MillisOf(c[b[1] + 1].end),
                            text  |-> SubSeq(c, b[1] + 2, b[2])]

(* C17 amended: parseSRT maps every block [ordinal line, timestamp line, one *)
(* or more text lines] to exactly one entry whose start and end are the two  *)
(* timestamps and whose text is the text lines joined by a line break, with  *)
(* the whitespace before the first and after the last text line removed; the *)
(* entries are in the order of their blocks.  The two-block example yields   *)
(* [{1.0, 4.0, Hello}, {5.5, 8.25, World\nLine2}].                           *)
EntryPerBlock ==
    last.op = "parseSRT" =>
        LET c    == last.content
            full == FullBlocks(c)
        IN  /\ Len(last.result) = Cardinality(full)
            /\ \A k \in 1..Len(last.result) :
                   LET b == NthBlock(full, k)
                   IN  last.result[k] =
                           [start |-> MillisOf(c[b[1] + 1].start),
                            end   |-> MillisOf(c[b[1] + 1].end),
                            text  |-> Stripped(SubSeq(c, b[1] + 2, b[2]))]

\* the two-block example parsed
EntryPerBlockWitness ==
    /\ last.op = "parseSRT"
    /\ last.content = TwoBlockFile
    /\ last.result =
           <<[start |-> 1000, end |-> 4000,
              text |-> <<TextLine("Hello", FALSE, FALSE)>>],
             [start |-> 5500, end |-> 8250,
              text |-> <<TextLine("World", FALSE, FALSE),
                         TextLine("Line2", FALSE, FALSE)>>]>>

---------------------------------------------------------------------------
(* C18: the ordinal line is optional: a block that has no ordinal line and   *)
(* consists of a timestamp line followed by one or more text lines is parsed *)
(* into an entry with those timestamps and that text.                        *)
OrdinalOptional ==
    last.op = "parseSRT" =>
        LET c == last.content
        IN  \A b \in BlocksOf(c) :
                (IsTimestampLine(c[b[1]]) /\ b[2] > b[1]) =>
                    \E k \in 1..Len(last.result) :
                        last.result[k] =
                            [start |-> MillisOf(c[b[1]].start),
                             end   |-> MillisOf(c[b[1]].end),
                             text  |-> Stripped(SubSeq(c, b[1] + 1, b[2]))]

---------------------------------------------------------------------------
(* C19: parseSRT does not abort on a text: a block with fewer than 3 lines   *)
(* or without a timestamp line adds no entry and leaves the entries of the   *)
(* other blocks as they are (the result is the parse of the text without     *)
(* that block), and a text that is empty or has no parsable block yields an  *)
(* empty array.                                                              *)
BadBlock(c, b) ==
    \/ b[2] - b[1] + 1 < 3
    \/ \A k \in b[1]..b[2] : c[k].kind # "time"

WithoutBlock(c, b) == SubSeq(c, 1, b[1] - 1) \o SubSeq(c, b[2] + 1, Len(c))

BadBlocksSkipped ==
    last.op = "parseSRT" =>
        LET c == last.content
        IN  /\ ~last.threw
            /\ \A b \in BlocksOf(c) :
                   BadBlock(c, b) => last.result = ParseSRT(WithoutBlock(c, b))
            /\ (\A b \in BlocksOf(c) : BadBlock(c, b)) => last.result = <<>>
            /\ Len(last.result) <= Cardinality({b \in BlocksOf(c) : ~BadBlock(c, b)})

\* a block of two lines between two blocks that each gave an entry
BadBlocksWitness ==
    /\ last.op = "parseSRT"
    /\ last.content = ThreeBlockFile
    /\ Len(last.result) = 2
    /\ last.result[1].start = 1000 /\ last.result[2].start = 5500
    /\ \E b \in BlocksOf(last.content) :
           /\ BadBlock(last.content, b)
           /\ \E a \in FullBlocks(last.content) : a[2] < b[1]
           /\ \E a \in FullBlocks(last.content) : a[1] > b[2]

---------------------------------------------------------------------------
(* C20: in whole milliseconds, the fields (h, m, s, ms) of a timestamp are   *)
(* converted to h*3600000 + m*60000 + s*1000 + ms for every two-digit h, m,  *)
(* s and three-digit ms; minutes and seconds of 60..99 are accepted.         *)
TimestampMillis ==
    last.op \in {"_parseTimestamp", "Utils.parseTimestamp"} =>
        last.result = MillisOf(last.stamp)

\* 09:99:60,069 converted by _parseTimestamp
TimestampWitness ==
    /\ last.op = "_parseTimestamp"
    /\ last.stamp = Stamp(<<0, 9>>, <<9, 9>>, <<6, 0>>, <<0, 6, 9>>)
    /\ last.result = 9 * 3600000 + 99 * 60000 + 60 * 1000 + 69

---------------------------------------------------------------------------
(* C27: whenever getSubtitleAtTime returns a cue, on return the cursor is an *)
(* index whose cue is the returned one: the cursor as it was on a cache hit, *)
(* one more on a forward step, one less on a backward step, and otherwise    *)
(* the index the binary search found.                                        *)
CursorOnReturned ==
    /\ (last.op \in {"getSubtitleAtTime", "handleSeeked"} /\ last.ret # Null) =>
           /\ currentIndex >= 0 /\ currentIndex < Len(subtitles)
           /\ At(subtitles, currentIndex) = last.ret
    /\ (Looked /\ last.ret # Null) =>
           LET from == last.from
               On(i) == i >= 0 /\ i < Len(subtitles) /\ Covers(At(subtitles, i), Adjusted)
           IN  IF On(from) THEN currentIndex = from /\ ~last.searched
               ELSE IF On(from + 1) THEN currentIndex = from + 1 /\ ~last.searched
               ELSE IF On(from - 1) THEN currentIndex = from - 1 /\ ~last.searched
               ELSE last.searched /\ On(currentIndex)

\* a lookup answered by the backward step
CursorOnReturnedWitness ==
    /\ last.op = "getSubtitleAtTime"
    /\ last.ret # Null
    /\ last.from >= 1
    /\ currentIndex = last.from - 1
    /\ ~last.searched

---------------------------------------------------------------------------
(* C28: getSubtitleAtTime terminates in every reachable state and for every  *)
(* time, also on unsorted or overlapping sequences and from every cursor:    *)
(* each iteration of the binary-search loop strictly shrinks right - left,   *)
(* and the loop runs at most floor(log2 N) + 1 iterations.                   *)
RECURSIVE BitLength(_)
\* floor(log2 n) + 1 for n >= 1
BitLength(n) == IF n <= 0 THEN 0 ELSE 1 + BitLength(n \div 2)

SearchTerminates ==
    /\ [][(script.step = 1 /\ script'.step = 1) =>
              script'.right - script'.left < script.right - script.left]_vars
    /\ [](script.step \in {1, 2} => script.iterations <= BitLength(Len(subtitles)))
    /\ [](script.step = 2 =>
              /\ last.ret = Lookup(subtitles, last.from, offset, enabled, script.t).ret
              /\ currentIndex = Lookup(subtitles, last.from, offset, enabled, script.t).index)
    /\ (script.step = 1 ~> script.step = 2)

\* a search on an unsorted sequence that took floor(log2 N) + 1 iterations
\* and found nothing
SearchWitness ==
    /\ script.step = 2
    /\ ~SortedByStart(subtitles)
    /\ last.ret = Null
    /\ last.from >= 0
    /\ script.iterations = BitLength(Len(subtitles))

---------------------------------------------------------------------------
(* C21: for every time >= 0 in whole milliseconds, _formatTimestamp writes   *)
(* two digits each for hours, minutes and seconds and three for              *)
(* milliseconds, with minutes and seconds below 60, so that the parser's     *)
(* timestamp pattern matches the line written and decodes it to the same     *)
(* time, also from 100 hours on.                                             *)
FormatDecodes ==
    last.op \in {"_formatTimestamp", "Utils.formatTimestamp"} =>
        LET r    == last.result
            line == TimeLine(r, r)
        IN  /\ Len(r.h) = 2 /\ Len(r.m) = 2 /\ Len(r.s) = 2 /\ Len(r.ms) = 3
            /\ 10 * r.m[1] + r.m[2] < 60
            /\ 10 * r.s[1] + r.s[2] < 60
            /\ Matches(line)
            /\ MillisOf(StartGroups(line)) = last.millis
            /\ MillisOf(EndGroups(line)) = last.millis

---------------------------------------------------------------------------
(* C22: for every sequence of entries in ascending order that do not overlap,*)
(* with times in whole milliseconds and text without a blank line, loading   *)
(* it and calling parseSRT(exportToSRT()) yields the same sequence: same     *)
(* length, same order, same start, end and text for every entry.             *)
RoundTrip ==
    (last.op = "parseSRT" /\ Len(subtitles) > 0) =>
        /\ Len(last.result) = Len(subtitles)
        /\ \A k \in 1..Len(subtitles) :
               /\ last.result[k].start = subtitles[k].start
               /\ last.result[k].end = subtitles[k].end
               /\ last.result[k].text = <<TextLine(subtitles[k].text, FALSE, FALSE)>>

---------------------------------------------------------------------------
(* C23: every entry parseSRT returns has start >= 0, end > start and a text  *)
(* that is not empty; that is, every result that is not empty is accepted by *)
(* validateSubtitles.                                                        *)
EntriesValid ==
    last.op = "parseSRT" =>
        /\ \A k \in 1..Len(last.result) :
               /\ last.result[k].start >= 0
               /\ last.result[k].end > last.result[k].start
               /\ last.result[k].text # <<>>
        /\ last.result # <<>> => ValidateSubtitles(last.result)

---------------------------------------------------------------------------
(* C26: at most one subtitle-update timer is alive at any time, whatever     *)
(* the play, pause, seeked and ended events, the attaching and detaching of  *)
(* videos and the calls of init; and whenever updateInterval is given a new  *)
(* timer, the timer it held before has been cancelled.                       *)
OneUpdateTimer ==
    /\ [](Cardinality(page.timers) <= 1)
    /\ [][(page'.updateInterval # page.updateInterval /\ page.updateInterval # NoTimer)
              => page.updateInterval \notin page'.timers]_vars

\* a play event has replaced a live timer: the new timer got the id 2 because
\* the id 1 was still held, and it is the only one alive; both calls of init
\* have been made
OneUpdateTimerWitness ==
    /\ last.op = "play"
    /\ page.updateInterval = 2
    /\ page.timers = {2}
    /\ page.init[1] # "ready"
    /\ page.init[2] # "ready"

---------------------------------------------------------------------------
(* C29 as stated: however the two calls of init interleave, a SubtitleEngine *)
(* and a SubtitleOverlay are constructed at most once and the runtime        *)
(* message listener is registered at most once.                              *)
InitOnce ==
    /\ page.engines <= 1
    /\ page.overlays <= 1
    /\ page.messageListeners <= 1

---------------------------------------------------------------------------
(* C30 as stated: once settings have been loaded, whenever no call of init   *)
(* is under way (a handler of the model runs to its end in one step), the    *)
(* engine's enabled flag equals settings.enabled and its offset equals       *)
(* settings.subtitleOffset.                                                  *)
InitUnderWay == \E i \in 1..2 : page.init[i] \in {"settings", "subtitle", "video"}

SettingsAgree ==
    (page.running /\ page.settings.loaded /\ ~InitUnderWay) =>
        /\ enabled = page.settings.enabled
        /\ offset = page.settings.subtitleOffset

---------------------------------------------------------------------------
(* C24 as stated: when the popup, opened on video V, has read the delay d    *)
(* saved for V (checkVideoStatus, then loadVideoDelay) and no message is on  *)
(* its way, the popup shows d and the content script's engine applies d.     *)
DelayRestored ==
    (/\ last.op = "loadVideoDelay"
     /\ popup.currentVideoId = page.videoId
     /\ storage.delays[popup.currentVideoId].set
     /\ channel = <<>>) =>
        /\ popup.currentSettings.subtitleOffset = storage.delays[popup.currentVideoId].value
        /\ offset = storage.delays[popup.currentVideoId].value

---------------------------------------------------------------------------
(* C25: a call of handleFileUpload with a file whose name does not end in    *)
(* .srt, whose size exceeds 5 MB, or whose content parses to no entry leaves *)
(* the stored subtitle and its metadata, the popup's currentSubtitle and the *)
(* engine's sequence as they were and sends no message.                      *)
Refused(file) ==
    \/ ~file.srt
    \/ file.size > MaxFileSize
    \/ PopupParseSRT(file.content) = <<>>

RefusedUploadChangesNothing ==
    [][(last'.op = "handleFileUpload" /\ Refused(last'.file)) =>
          /\ storage'.subtitle = storage.subtitle
          /\ storage'.metadata = storage.metadata
          /\ popup'.currentSubtitle = popup.currentSubtitle
          /\ subtitles' = subtitles
          /\ channel' = channel]_vars

\* a file of the right name and size whose text has lines but no entry has
\* been refused while a subtitle is stored and loaded in the engine
RefusedUploadWitness ==
    /\ last.op = "handleFileUpload"
    /\ last.file.srt
    /\ last.file.size <= MaxFileSize
    /\ last.file.content # <<>>
    /\ Refused(last.file)
    /\ IsArray(storage.subtitle)
    /\ storage.metadata > 0
    /\ subtitles # <<>>
---------------------------------------------------------------------------
(* C37: on an array sorted by start whose cues share no time, an enabled     *)
(* engine holding the array and the offset, whatever its cursor, returns     *)
(* from getSubtitleAtTime(t) what Utils.findSubtitleAtTime(subs, t, offset)  *)
(* returns, a cue or null; and Utils.findSubtitleIndexAtTime returns the     *)
(* index of that cue, or -1 for null, for every lastIndex, in range or not.  *)
HelpersAgree ==
    /\ (last.op = "findSubtitleAtTime" /\ WellFormed(subtitles)) =>
           last.ret = Lookup(subtitles, currentIndex, offset, enabled, last.t).ret
    /\ (last.op = "findSubtitleIndexAtTime" /\ WellFormed(subtitles)) =>
           LET found == Lookup(subtitles, currentIndex, offset, enabled, last.t).ret
           IN  IF found = Null
               THEN last.index = -1
               ELSE /\ last.index >= 0 /\ last.index < Len(subtitles)
                    /\ At(subtitles, last.index) = found

\* the helper finds the first cue by its search, with an offset, while the
\* engine's cursor is two cues further on
HelpersAgreeWitness ==
    /\ last.op = "findSubtitleAtTime"
    /\ WellFormed(subtitles)
    /\ Len(subtitles) >= 3
    /\ currentIndex = 2
    /\ offset # 0
    /\ enabled
    /\ last.ret = At(subtitles, 0)

---------------------------------------------------------------------------
(* C33 as stated: for every message the content script receives, each call   *)
(* of handleMessage calls sendResponse exactly once, whatever the type and   *)
(* the payload of the message and whether settings is loaded or still null.  *)
Heard == last.op \in {m.type : m \in Messages}

RespondsOnce == Heard => last.responses = page.messageListeners

---------------------------------------------------------------------------
(* C31 as stated: immediately after every call of updateSubtitle made with   *)
(* a video attached, the overlay is visible exactly when settings.enabled is *)
(* true, the engine's array is not empty and one of its cues contains        *)
(* videoElement.currentTime + offset; and when it is visible its current     *)
(* text is the text of such a cue.                                           *)

\* the last handler called updateSubtitle with a video attached: the timer and
\* the seeked event always do, the offset message and the offset shortcuts
\* unless settings is null, which makes them throw before the call
Updated ==
    /\ page.videoElement # NoVideo
    /\ \/ last.op \in {"tick", "seeked"}
       \/ last.op \in {"OFFSET_CHANGED", "ArrowRight", "ArrowLeft", "0"} /\ page.settings.loaded

\* what the claim says of the overlay, for the time the call was made with
ShowsCovering ==
    LET hits == Containing(subtitles, last.t + offset)
    IN  /\ page.overlay.isVisible <=>
               (page.settings.loaded /\ page.settings.enabled
                    /\ Len(subtitles) > 0 /\ hits # {})
        /\ page.overlay.isVisible =>
               \E i \in hits : page.overlay.currentText = subtitles[i].text

---------------------------------------------------------------------------
(* C32 as stated: once a handler has made settings.enabled false (the        *)
(* TOGGLE_SUBTITLES message, a SETTINGS_UPDATED message carrying enabled =   *)
(* false, Ctrl+Shift+S), the overlay is not visible, and it is not visible   *)
(* for as long as settings.enabled stays false, whether the video plays or   *)
(* is paused.  On a page that started with subtitles enabled these handlers  *)
(* are the only way to a false settings.enabled.                             *)
DisabledMeansHidden ==
    (page.settings.loaded /\ ~page.settings.enabled) => ~page.overlay.isVisible

---------------------------------------------------------------------------
(* C34 as stated: after any sequence of init, show, hide, updateSettings,    *)
(* handleFullscreen, repair and destroy, whenever isVisible is true the text *)
(* element exists and its content is currentText; and a show(text) that      *)
(* follows a repair which rebuilt a removed container leaves the text        *)
(* element holding that text.                                                *)
TextConsistent ==
    /\ page.overlay.isVisible =>
           page.overlay.container /\ page.overlay.content = page.overlay.currentText
    /\ last.op = "show" => page.overlay.content = last.text

---------------------------------------------------------------------------
(* C35: once the attached video has paused or ended, and once the page has   *)
(* detached from a video, no update timer is alive; a timer comes to life    *)
(* only with a play event or with the attachment to a video that is not      *)
(* paused; and while none is alive getSubtitleAtTime is called only by the   *)
(* seeked event, the OFFSET_CHANGED message and the shortcuts Ctrl+0,        *)
(* Ctrl+ArrowLeft and Ctrl+ArrowRight.                                       *)

\* the step attaches the page to a video that is not paused
AttachesPlaying ==
    /\ page'.videoElement # NoVideo
    /\ page'.videoElement # page.videoElement
    /\ page'.videoElement \in page'.playing

\* the step's handler called getSubtitleAtTime
LooksUp == "lookups" \in DOMAIN last' /\ last'.lookups > 0

NoPollingWhileStill ==
    /\ [][(last'.op \in {"pause", "ended"} /\ last'.t = page.videoElement)
              => page'.timers = {}]_vars
    /\ [][(page.videoElement # NoVideo /\ page'.videoElement # page.videoElement)
              => (page'.timers = {} \/ AttachesPlaying)]_vars
    /\ [][(page.timers = {} /\ page'.timers # {})
              => (last'.op = "play" \/ AttachesPlaying)]_vars
    /\ [][(page.timers = {} /\ LooksUp)
              => last'.op \in {"seeked", "OFFSET_CHANGED", "0", "ArrowLeft", "ArrowRight"}]_vars

\* the page has gone over from a removed video to a paused one, and a seek
\* there has looked the time up with no timer alive
NoPollingWitness ==
    /\ last.op = "seeked"
    /\ last.lookups = 1
    /\ page.timers = {}
    /\ page.videoElement = 2
    /\ page.videoElement \notin page.playing
    /\ page.overlay.isVisible

---------------------------------------------------------------------------
(* C36: when the attached video element has been taken out of the document   *)
(* and another video element is in it, then, the detection timer firing      *)
(* fairly, videoElement eventually is an element of the document other than  *)
(* the old one and the old one's listeners are gone; and at no time do two   *)
(* video elements carry the page's listeners.                                *)

\* the page's video v is out of the document and another video is in it
Lost(v) ==
    /\ page.videoElement = v
    /\ v \notin page.document
    /\ page.document # {}

\* the page has gone over from v to a video of the document
Regained(v) ==
    /\ page.videoElement \in page.document \ {v}
    /\ v \notin page.listeners
    /\ page.listeners = {page.videoElement}

Reattaches ==
    /\ [](Cardinality(page.listeners) <= 1)
    /\ \A v \in Videos : Lost(v) ~> Regained(v)

\* the detection timer has just taken the page from the removed video 1 to
\* video 2, which plays, so the update timer runs again
ReattachesWitness ==
    /\ last.op = "detect"
    /\ page.videoElement = 2
    /\ page.document = {2}
    /\ page.listeners = {2}
    /\ page.timers # {}

=============================================================================
